---------------------------- MODULE Spec2Model ----------------------------
(***************************************************************************)
(* Model of the claude-flow-csp discovery core: the seeded PRNG, the       *)
(* deterministic stub tool client, the verification aggregator, the        *)
(* iteration policy and the workflow engine (discover / iterate /          *)
(* validate / export) with its on-disk run directory.                      *)
(*                                                                         *)
(* Number representations                                                  *)
(*   - a 32-bit word is a pair <<hi, lo>> of 16-bit halves (the value is   *)
(*     hi * 2^16 + lo); all PRNG arithmetic is done modulo 2^32 on these.  *)
(*   - truth scores and thresholds are integers in ten-thousandths         *)
(*     (toFixed(4) makes every score a multiple of 0.0001).                *)
(*   - sha256Hex is modelled as an injective function: the "hash" of a     *)
(*     string is the string itself (collisions are not modelled).          *)
(***************************************************************************)
EXTENDS Integers, Sequences, FiniteSets, TLC

(***************************************************************************)
(* 32-bit arithmetic on <<hi, lo>> pairs                                   *)
(***************************************************************************)
H16 == 2 ^ 16

\* bit i (of weight p = 2^i) of a ^ b and of a | b
XorBit(a, b, p) == (((a \div p) + (b \div p)) % 2) * p
OrBit(a, b, p) == (IF (a \div p) % 2 = 1 \/ (b \div p) % 2 = 1 THEN 1 ELSE 0) * p

\* a ^ b on 4-bit and on 16-bit numbers
XorNibble(a, b) ==
  (XorBit(a, b, 1) + XorBit(a, b, 2)) + (XorBit(a, b, 4) + XorBit(a, b, 8))

BitXor(a, b) ==
  (XorNibble(a % 16, b % 16) + 16 * XorNibble((a \div 16) % 16, (b \div 16) % 16))
  + 256 * (XorNibble((a \div 256) % 16, (b \div 256) % 16)
           + 16 * XorNibble(a \div 4096, b \div 4096))

\* a | b on 4-bit and on 16-bit numbers
OrNibble(a, b) ==
  (OrBit(a, b, 1) + OrBit(a, b, 2)) + (OrBit(a, b, 4) + OrBit(a, b, 8))

BitOr(a, b) ==
  (OrNibble(a % 16, b % 16) + 16 * OrNibble((a \div 16) % 16, (b \div 16) % 16))
  + 256 * (OrNibble((a \div 256) % 16, (b \div 256) % 16)
           + 16 * OrNibble(a \div 4096, b \div 4096))

Xor32(a, b) == <<BitXor(a[1], b[1]), BitXor(a[2], b[2])>>

\* a | k for a small constant k < 2^16
Or32(a, k) == <<a[1], BitOr(a[2], k)>>

Add32(a, b) ==
  LET lo == a[2] + b[2]
  IN  <<(a[1] + b[1] + (lo \div H16)) % H16, lo % H16>>

\* a >>> n for 0 < n < 16
Shr32(a, n) ==
  LET p == 2 ^ n
      q == 2 ^ (16 - n)
  IN  <<a[1] \div p, (a[1] % p) * q + (a[2] \div p)>>

\* full 32-bit product of two 16-bit numbers, as <<hi, lo>>
Mul16(x, y) ==
  LET p1  == (x \div 256) * y
      p0  == (x % 256) * y
      mid == (p1 % 256) * 256 + p0
  IN  <<(p1 \div 256) + (mid \div H16), mid % H16>>

\* Math.imul: the low 32 bits of the product
Imul(a, b) ==
  LET ll == Mul16(a[2], b[2])
      hl == Mul16(a[1], b[2])
      lh == Mul16(a[2], b[1])
  IN  <<(ll[1] + hl[2] + lh[2]) % H16, ll[2]>>

\* a small non-negative integer as a 32-bit word
W32(n) == <<n \div H16, n % H16>>

(***************************************************************************)
(* Seeded PRNG (Mulberry32 variant)                                        *)
(***************************************************************************)
\* 0x6d2b79f5
MulberryInc == <<27947, 31221>>

\* normalizeSeed on a value already reduced to 32 bits: 0 becomes 1
normalizeSeed(w) == IF w = <<0, 0>> THEN <<0, 1>> ELSE w

\* Statement sequencing: the value v is computed first, then the rest F of
\* the computation runs on it (v is evaluated once, before F)
Then(v, F(_)) == CHOOSE r \in { F(x) : x \in {v} } : TRUE

\* SeededRng.next: [state |-> new state, out |-> the 32-bit numerator of the
\* returned float out / 2^32]
RngNext(state) ==
  Then(Add32(state, MulberryInc), LAMBDA t1 :
  Then(Imul(Xor32(t1, Shr32(t1, 15)), Or32(t1, 1)), LAMBDA t2 :
  Then(Xor32(t2, Add32(t2, Imul(Xor32(t2, Shr32(t2, 7)), Or32(t2, 61)))), LAMBDA t3 :
    [state |-> t3, out |-> Xor32(t3, Shr32(t3, 14))])))

\* floor(n * out / 2^32) for a small n: nextInt(0, n - 1) on the draw `out'
ScaleDraw(out, n) == (n * out[1] + ((n * out[2]) \div H16)) \div H16


\* round(n * out / 2^32), half up, for n < 2^15: the rounding of toFixed on
\* the exact value (the double differs from it by less than 2^-50)
ScaleRound(out, n) == ((n * out[1] + ((n * out[2]) \div H16)) + 32768) \div H16

\* SeededRng.nextInt(0, n - 1): [state, value]
RngNextInt(state, n) ==
  Then(RngNext(state), LAMBDA d :
    [state |-> d.state, value |-> ScaleDraw(d.out, n)])

\* SeededRng.nextHex(length): the digits, each nextInt(0, 15)
RECURSIVE RngNextHex(_, _)
RngNextHex(state, length) ==
  IF length = 0 THEN <<>>
  ELSE Then(RngNextInt(state, 16), LAMBDA d :
         <<d.value>> \o RngNextHex(d.state, length - 1))

\* an integer seed (|n| < 2^31) as the 32-bit word of n >>> 0
SeedWord(n) ==
  IF n >= 0 THEN W32(n)
  ELSE <<65535 - ((-n - 1) \div H16), 65535 - ((-n - 1) % H16)>>

\* new SeededRng(seed).state
SeededRng(seed) == normalizeSeed(SeedWord(seed))

\* 2166136261 and 16777619
FnvOffset == <<33052, 40389>>
FnvPrime == <<256, 403>>

\* hashStringToSeed / seedFromString: FNV-1a over the char codes of a string
\* given as a sequence of codes
RECURSIVE FnvFold(_, _)
FnvFold(hash, codes) ==
  IF codes = <<>> THEN hash
  ELSE FnvFold(Imul(Xor32(hash, W32(Head(codes))), FnvPrime), Tail(codes))

seedFromString(codes) == normalizeSeed(FnvFold(FnvOffset, codes))

(***************************************************************************)
(* Bounds of the model                                                     *)
(***************************************************************************)
\* number of CLI invocations in a behaviour
MaxCmds == 3

\* an optional value is <<>> (absent) or <<v>>
Absent == <<>>
Some(v) == <<v>>

Seeds == {1, 3}
\* objectives, as char-code sequences: "a"
Objectives == {<<97>>}
\* values of --chem-system (after the split/trim/join of the CLI); "" is no flag
ChemFlags == {"", "Na-Cl"}
\* values of --max-iters
MaxItersFlags == {Absent, Some(1)}

(***************************************************************************)
(* Configuration                                                           *)
(***************************************************************************)
\* config.ts DEFAULT_CONFIG (the mcp server names left out; process.cwd() is "cwd";
\* truth_accept_threshold in ten-thousandths)
DEFAULT_CONFIG ==
  [ workspace_dir |-> "cwd",
    qlip |-> [ solver |-> "gurobi", time_limit_s |-> 3600,
               max_solutions |-> 25, max_atoms |-> 120 ],
    policy |-> [ max_iters |-> 5,
                 truth_accept_threshold |-> 8000,
                 relax_order |-> << "widen_lattice", "relax_symmetry",
                                    "expand_oxidation_states",
                                    "increase_max_atoms", "expand_prototypes" >>,
                 tighten_order |-> << "increase_min_distance_scale",
                                      "narrow_density",
                                      "restrict_oxidation_states",
                                      "restrict_prototypes" >> ] ]

\* the keys of the config whose values are JSON objects
ObjectKeys == {"qlip", "policy"}

\* the else-branch of mergeDeep: the override's value replaces the base's
MergeFlat(base, override) ==
  [k \in (DOMAIN base) \cup (DOMAIN override) |->
     IF k \in DOMAIN override THEN override[k] ELSE base[k]]

\* a merge in which an object of the override replaces the base's object
mergeDeepTopLevelOnly(base, override) == MergeFlat(base, override)

\* mergeDeep(DEFAULT_CONFIG, loaded): objects are merged key by key, arrays
\* and scalars are replaced
mergeDeep(base, override) ==
  [k \in (DOMAIN base) \cup (DOMAIN override) |->
     IF k \notin DOMAIN override THEN base[k]
     ELSE IF k \in DOMAIN base /\ k \in ObjectKeys
          THEN MergeFlat(base[k], override[k])
          ELSE override[k]]

\* applyCliOverrides: a flag that is not given is "" (Absent for max_iters)
applyCliOverrides(config, workspace_dir, solver, max_iters) ==
  LET c0 == IF workspace_dir # "" THEN [config EXCEPT !.workspace_dir = workspace_dir]
            ELSE config
      c1 == IF solver # "" THEN [c0 EXCEPT !.qlip.solver = solver] ELSE c0
  IN  IF max_iters # Absent
      THEN [c1 EXCEPT !.policy.max_iters = max_iters[1]]
      ELSE c1

\* resolveConfig: loaded is Absent (no readable file) or Some(partial config)
resolveConfig(loaded, workspace_dir, solver, max_iters) ==
  applyCliOverrides(
    IF loaded = Absent THEN DEFAULT_CONFIG ELSE mergeDeep(DEFAULT_CONFIG, loaded[1]),
    workspace_dir, solver, max_iters)

(***************************************************************************)
(* Stub tool client tables                                                 *)
(***************************************************************************)
CHEMISTRY_TABLE ==
  << << [chem_system |-> "Li-Fe-P-O", rationale |-> "Phosphate chemistry with stable frameworks", confidence |-> 78],
        [chem_system |-> "Na-Cl", rationale |-> "Binary ionic system for baseline CSP", confidence |-> 64],
        [chem_system |-> "Ti-O", rationale |-> "Oxide system with known polymorphs", confidence |-> 71] >>,
     << [chem_system |-> "Mg-Si-O", rationale |-> "Silicate chemistry for structural diversity", confidence |-> 75],
        [chem_system |-> "Al-N", rationale |-> "Nitride system with high symmetry", confidence |-> 62],
        [chem_system |-> "Ca-Ti-O", rationale |-> "Perovskite-forming chemistry", confidence |-> 82] >>,
     << [chem_system |-> "Zn-S", rationale |-> "Binary semiconductor baseline", confidence |-> 70],
        [chem_system |-> "Li-Co-O", rationale |-> "Layered oxide chemistry", confidence |-> 80],
        [chem_system |-> "Fe-S", rationale |-> "Transition metal sulfide system", confidence |-> 66] >> >>

\* density_range is [lo, hi, den]: the range [lo / den, hi / den], kept as
\* exact rationals over a common denominator
PRIOR_TABLE ==
  << [ lattice_prior |-> [symmetry |-> "any"],
       density_range |-> [lo |-> 28, hi |-> 42, den |-> 10],
       oxidation_state_constraints |-> "Li:1,Fe:2:3,P:5,O:-2",
       prototypes |-> <<"olivine", "spinel", "perovskite">> ],
     [ lattice_prior |-> [symmetry |-> "any"],
       density_range |-> [lo |-> 31, hi |-> 50, den |-> 10],
       oxidation_state_constraints |-> "Mg:2,Si:4,O:-2,Ca:2,Ti:4",
       prototypes |-> <<"perovskite", "rutile", "rocksalt">> ],
     [ lattice_prior |-> [symmetry |-> "any"],
       density_range |-> [lo |-> 20, hi |-> 36, den |-> 10],
       oxidation_state_constraints |-> "Zn:2,S:-2,Li:1,Co:3:4,Fe:2:3",
       prototypes |-> <<"zincblende", "wurtzite", "layered">> ] >>

\* the check names, in the order the stub and the aggregator list them
CheckNames ==
  << "parseable", "min_distance", "density_in_range",
     "charge_neutrality_feasible", "coordination_reasonable", "symmetry_match" >>

\* baseScores of batchValidate, and the default beyond index 4
\* base scores whose first entry is within the noise of the default threshold
baseScoresNearThreshold == <<8100, 7200, 6000, 4800, 3500>>

baseScores == <<8500, 7200, 6000, 4800, 3500>>
BaseDefault == 4000

\* utils.ts clamp, on ten-thousandths
clamp(value) == IF value < 0 THEN 0 ELSE IF value > 10000 THEN 10000 ELSE value

(***************************************************************************)
(* Verification aggregator                                                 *)
(*                                                                         *)
(* A candidate id cand_NNNN is the number NNNN (the lexicographic order of *)
(* the zero-padded ids is the numeric order); 0 stands for the empty       *)
(* string.  A JS object keyed by candidate id is the sequence of its       *)
(* entries in insertion order, which is the order Object.entries yields    *)
(* for such keys.                                                          *)
(***************************************************************************)
EmptyId == 0

\* obj[key] = value on an insertion-ordered object
ObjSet(obj, key, value) ==
  IF \E i \in 1..Len(obj) : obj[i].candidate_id = key
  THEN [i \in 1..Len(obj) |->
          IF obj[i].candidate_id = key
          THEN [candidate_id |-> key, truth_score |-> value] ELSE obj[i]]
  ELSE Append(obj, [candidate_id |-> key, truth_score |-> value])

\* obj[key] ?? 0
ObjGet(obj, key) ==
  IF \E i \in 1..Len(obj) : obj[i].candidate_id = key
  THEN (CHOOSE e \in {obj[i] : i \in 1..Len(obj)} : e.candidate_id = key).truth_score
  ELSE 0

\* the truthScores object after the loop over the reports
RECURSIVE TruthScoresOf(_, _)
TruthScoresOf(reports, acc) ==
  IF reports = <<>> THEN acc
  ELSE TruthScoresOf(Tail(reports),
                     ObjSet(acc, Head(reports).candidate_id, Head(reports).truth_score))

\* the bestCandidateId / bestScore loop: the first report whose score is
\* strictly above everything before it wins
RECURSIVE BestOf(_, _, _)
BestOf(reports, bestId, bestScore) ==
  IF reports = <<>> THEN bestId
  ELSE IF Head(reports).truth_score > bestScore
       THEN BestOf(Tail(reports), Head(reports).candidate_id, Head(reports).truth_score)
       ELSE BestOf(Tail(reports), bestId, bestScore)

\* number of failed checks of a name over all reports
FailuresOf(reports, name) ==
  LET failed(r) == Cardinality({j \in 1..Len(r.checks) :
                                  r.checks[j].name = name /\ ~r.checks[j].passed})
      RECURSIVE Sum(_)
      Sum(rs) == IF rs = <<>> THEN 0 ELSE failed(Head(rs)) + Sum(Tail(rs))
  IN  Sum(reports)

\* the histogram built from the failed checks only, without the six zeros
FailureHistogramOfFailed(reports) ==
  [name \in {n \in {CheckNames[i] : i \in 1..Len(CheckNames)} :
               FailuresOf(reports, n) > 0} |-> FailuresOf(reports, name)]

FailureHistogram(reports) ==
  [name \in {CheckNames[i] : i \in 1..Len(CheckNames)} |-> FailuresOf(reports, name)]

\* Array.prototype.sort with (a, b) => b[1] - a[1]: a stable sort by score
\* descending; an entry goes behind every entry whose score is not smaller
SortInsert(sorted, e) ==
  LET k == Cardinality({i \in 1..Len(sorted) : sorted[i].truth_score >= e.truth_score})
  IN  SubSeq(sorted, 1, k) \o <<e>> \o SubSeq(sorted, k + 1, Len(sorted))

RECURSIVE SortByScore(_, _)
SortByScore(entries, sorted) ==
  IF entries = <<>> THEN sorted
  ELSE SortByScore(Tail(entries), SortInsert(sorted, Head(entries)))

TopCandidates(truthScores) == SortByScore(truthScores, <<>>)

CountWhere(seq, P(_)) == Cardinality({i \in 1..Len(seq) : P(seq[i])})

\* verify/src/index.ts summarizeValidation
\* summarizeValidation accepting only scores strictly above the threshold
summarizeValidationStrictlyAbove(reports, truthAcceptThreshold) ==
  LET truthScores == TruthScoresOf(reports, <<>>)
      bestCandidateId == BestOf(reports, EmptyId, -1)
      accepted == CountWhere(reports, LAMBDA r : r.truth_score > truthAcceptThreshold)
  IN  [ total |-> Len(reports),
        accepted |-> accepted,
        rejected |-> Len(reports) - accepted,
        best_candidate_id |->
          IF bestCandidateId # EmptyId THEN bestCandidateId
          ELSE IF reports # <<>> THEN Head(reports).candidate_id ELSE EmptyId,
        truth_scores |-> truthScores,
        failure_histogram |-> FailureHistogram(reports),
        top_candidates |-> TopCandidates(truthScores) ]

summarizeValidation(reports, truthAcceptThreshold) ==
  LET truthScores == TruthScoresOf(reports, <<>>)
      bestCandidateId == BestOf(reports, EmptyId, -1)
      accepted == CountWhere(reports, LAMBDA r : r.truth_score >= truthAcceptThreshold)
  IN  [ total |-> Len(reports),
        accepted |-> accepted,
        rejected |-> Len(reports) - accepted,
        best_candidate_id |->
          IF bestCandidateId # EmptyId THEN bestCandidateId
          ELSE IF reports # <<>> THEN Head(reports).candidate_id ELSE EmptyId,
        truth_scores |-> truthScores,
        failure_histogram |-> FailureHistogram(reports),
        top_candidates |-> TopCandidates(truthScores) ]

(***************************************************************************)
(* StubToolClient: every method maps the rng state to [state, value]       *)
(***************************************************************************)
\* suggestChemistries
StubSuggestChemistries(state) ==
  Then(RngNextInt(state, Len(CHEMISTRY_TABLE)), LAMBDA d :
    [state |-> d.state, value |-> [chemistries |-> CHEMISTRY_TABLE[d.value + 1]]])

\* fetchPriors
StubFetchPriors(state) ==
  Then(RngNextInt(state, Len(PRIOR_TABLE)), LAMBDA d :
    [state |-> d.state, value |-> [priors |-> PRIOR_TABLE[d.value + 1]]])

\* buildConstraints: no adjustments key, no rng draw
StubBuildConstraints(input) ==
  [constraints |-> [ chem_system |-> IF input.chem_system = "" THEN "unknown"
                                     ELSE input.chem_system,
                     priors |-> input.priors,
                     overrides |-> input.overrides,
                     adjustments |-> Absent ]]

\* the CIF placeholder text the stub writes for candidate i
StubCif(i) == <<"data_cand", i, "_cell_length 5.", i, "0">>

\* runQlip: five candidates, one draw each; score = (0.2 + 0.75 r).toFixed(4)
RECURSIVE StubRunQlipFrom(_, _)
StubRunQlipFrom(state, i) ==
  IF i > 5 THEN [state |-> state, candidates |-> <<>>]
  ELSE Then(RngNext(state), LAMBDA d :
       Then(StubRunQlipFrom(d.state, i + 1), LAMBDA rest :
         [state |-> rest.state,
          candidates |->
            << [candidate_id |-> i, score |-> 2000 + ScaleRound(d.out, 7500),
                format |-> "cif", content |-> StubCif(i)] >> \o rest.candidates]))

\* runQlip numbering its candidates from 2: four candidates
StubRunQlipFromSecond(state) ==
  Then(StubRunQlipFrom(state, 2), LAMBDA r :
    [state |-> r.state, value |-> [candidates |-> r.candidates]])

StubRunQlip(state) ==
  Then(StubRunQlipFrom(state, 1), LAMBDA r :
    [state |-> r.state, value |-> [candidates |-> r.candidates]])

\* the six checks of a report of the stub
StubChecks(truthScore) ==
  << [name |-> "parseable", passed |-> TRUE],
     [name |-> "min_distance", passed |-> truthScore >= 4000],
     [name |-> "density_in_range", passed |-> truthScore >= 5000],
     [name |-> "charge_neutrality_feasible", passed |-> truthScore >= 5500],
     [name |-> "coordination_reasonable", passed |-> truthScore >= 6500],
     [name |-> "symmetry_match", passed |-> truthScore >= 7000] >>

\* the forEach of batchValidate: one draw per candidate, in order
RECURSIVE StubReportsFrom(_, _, _, _)
StubReportsFrom(state, candidates, index, truthThreshold) ==
  IF index > Len(candidates) THEN [state |-> state, reports |-> <<>>]
  ELSE Then(RngNext(state), LAMBDA d :
       Then(StubReportsFrom(d.state, candidates, index + 1, truthThreshold), LAMBDA rest :
         LET base == IF index <= Len(baseScores) THEN baseScores[index] ELSE BaseDefault
             truthScore == clamp(base - 200 + ScaleRound(d.out, 400))
         IN  [state |-> rest.state,
              reports |->
                << [candidate_id |-> candidates[index].candidate_id,
                    truth_score |-> truthScore,
                    accept |-> truthScore >= truthThreshold,
                    checks |-> StubChecks(truthScore)] >> \o rest.reports]))

\* batchValidate: the reports and the stub's own summary
StubBatchValidate(state, candidates, truthThreshold) ==
  Then(StubReportsFrom(state, candidates, 1, truthThreshold), LAMBDA r :
  LET reports == r.reports
      truthScores == TruthScoresOf(reports, <<>>)
      bestCandidateId == BestOf(reports, EmptyId, -1)
      accepted == CountWhere(reports, LAMBDA x : x.accept)
  IN  [state |-> r.state,
       value |-> [ reports |-> reports,
                   summary |-> Some(
                     [ total |-> Len(reports),
                       accepted |-> accepted,
                       rejected |-> Len(reports) - accepted,
                       best_candidate_id |->
                         IF bestCandidateId # EmptyId THEN bestCandidateId
                         ELSE IF reports # <<>> THEN Head(reports).candidate_id
                         ELSE EmptyId,
                       truth_scores |-> truthScores,
                       failure_histogram |-> FailureHistogram(reports),
                       top_candidates |-> TopCandidates(truthScores) ]) ]])

(***************************************************************************)
(* Iteration policy                                                        *)
(***************************************************************************)
\* summary.failure_histogram[name] || 0
Failures(summary, name) ==
  IF name \in DOMAIN summary.failure_histogram
  THEN summary.failure_histogram[name] ELSE 0

\* decideIteration deciding a tie of the two failure counts as tighten
decideIterationTieTightens(summary, policy, iteration) ==
  LET relaxFailures == Failures(summary, "density_in_range")
                       + Failures(summary, "charge_neutrality_feasible")
                       + Failures(summary, "symmetry_match")
      tightenFailures == Failures(summary, "min_distance")
                         + Failures(summary, "coordination_reasonable")
      mode == IF relaxFailures > tightenFailures THEN "relax" ELSE "tighten"
      order == IF mode = "relax" THEN policy.relax_order ELSE policy.tighten_order
      action == IF Len(order) > 0 THEN order[(iteration % Len(order)) + 1]
                ELSE IF mode = "relax" THEN "widen_lattice"
                ELSE "increase_min_distance_scale"
  IN  [mode |-> mode, action |-> action]

\* decideIteration indexing the order list as if iterations counted from 1
decideIterationFromOne(summary, policy, iteration) ==
  LET relaxFailures == Failures(summary, "density_in_range")
                       + Failures(summary, "charge_neutrality_feasible")
                       + Failures(summary, "symmetry_match")
      tightenFailures == Failures(summary, "min_distance")
                         + Failures(summary, "coordination_reasonable")
      mode == IF relaxFailures >= tightenFailures THEN "relax" ELSE "tighten"
      order == IF mode = "relax" THEN policy.relax_order ELSE policy.tighten_order
      action == IF Len(order) > 0 THEN order[((iteration + Len(order) - 1) % Len(order)) + 1]
                ELSE IF mode = "relax" THEN "widen_lattice"
                ELSE "increase_min_distance_scale"
  IN  [mode |-> mode, action |-> action]

\* iteration.ts decideIteration
decideIteration(summary, policy, iteration) ==
  LET relaxFailures == Failures(summary, "density_in_range")
                       + Failures(summary, "charge_neutrality_feasible")
                       + Failures(summary, "symmetry_match")
      tightenFailures == Failures(summary, "min_distance")
                         + Failures(summary, "coordination_reasonable")
      mode == IF relaxFailures >= tightenFailures THEN "relax" ELSE "tighten"
      order == IF mode = "relax" THEN policy.relax_order ELSE policy.tighten_order
      action == IF Len(order) > 0 THEN order[(iteration % Len(order)) + 1]
                ELSE IF mode = "relax" THEN "widen_lattice"
                ELSE "increase_min_distance_scale"
  IN  [mode |-> mode, action |-> action]

Max(a, b) == IF a >= b THEN a ELSE b

\* constraints.adjustments ? [...constraints.adjustments] : [], then the push
PushAdjustment(adjustments, decision, iteration) ==
  Append(IF adjustments = Absent THEN <<>> ELSE adjustments[1],
         [iteration |-> iteration, mode |-> decision.mode, action |-> decision.action])

\* applyIterationDecision whose restrict_prototypes drops the last prototype of any list
applyIterationDecisionDroppingLast(constraints, decision, iteration) ==
  LET next == [constraints EXCEPT
                 !.adjustments = Some(PushAdjustment(constraints.adjustments, decision, iteration))]
      dr == next.priors.density_range
      protos == next.priors.prototypes
  IN  CASE decision.action = "widen_lattice" ->
             [next EXCEPT !.priors.density_range =
                [lo |-> Max(dr.den, dr.lo * 9), hi |-> dr.hi * 11, den |-> dr.den * 10]]
        [] decision.action = "narrow_density" ->
             [next EXCEPT !.priors.density_range =
                [lo |-> dr.lo * 21, hi |-> Max(dr.lo * 22, dr.hi * 19), den |-> dr.den * 20]]
        [] decision.action = "increase_max_atoms" ->
             [next EXCEPT !.overrides.max_atoms =
                IF @ # Absent THEN Some(@[1] + 5) ELSE Some(150)]
        [] decision.action = "increase_min_distance_scale" ->
             [next EXCEPT !.overrides.min_distance_scale =
                IF @ # Absent THEN Some(@[1] + 5) ELSE Some(105)]
        [] decision.action = "expand_prototypes" ->
             [next EXCEPT !.priors.prototypes = Append(protos, "proto_extra")]
        [] decision.action = "restrict_prototypes" ->
             [next EXCEPT !.priors.prototypes =
                SubSeq(protos, 1, Len(protos) - 1)]
        [] OTHER -> next

\* applyIterationDecision with a case for relax_symmetry that rewrites the lattice prior
applyIterationDecisionRelaxingSymmetry(constraints, decision, iteration) ==
  LET next == [constraints EXCEPT
                 !.adjustments = Some(PushAdjustment(constraints.adjustments, decision, iteration))]
      dr == next.priors.density_range
      protos == next.priors.prototypes
  IN  CASE decision.action = "widen_lattice" ->
             [next EXCEPT !.priors.density_range =
                [lo |-> Max(dr.den, dr.lo * 9), hi |-> dr.hi * 11, den |-> dr.den * 10]]
        [] decision.action = "narrow_density" ->
             [next EXCEPT !.priors.density_range =
                [lo |-> dr.lo * 21, hi |-> Max(dr.lo * 22, dr.hi * 19), den |-> dr.den * 20]]
        [] decision.action = "increase_max_atoms" ->
             [next EXCEPT !.overrides.max_atoms =
                IF @ # Absent THEN Some(@[1] + 5) ELSE Some(150)]
        [] decision.action = "increase_min_distance_scale" ->
             [next EXCEPT !.overrides.min_distance_scale =
                IF @ # Absent THEN Some(@[1] + 5) ELSE Some(105)]
        [] decision.action = "expand_prototypes" ->
             [next EXCEPT !.priors.prototypes = Append(protos, "proto_extra")]
        [] decision.action = "restrict_prototypes" ->
             [next EXCEPT !.priors.prototypes =
                SubSeq(protos, 1, Max(1, Len(protos) - 1))]
        [] decision.action = "relax_symmetry" ->
             [next EXCEPT !.priors.lattice_prior.symmetry = "P1"]
        [] OTHER -> next

\* iteration.ts applyIterationDecision.  Rationals over the common
\* denominator den: 0.9 lo = 9 lo / (10 den), 0.1 = den / (10 den), ...;
\* overrides.min_distance_scale is kept in hundredths
applyIterationDecision(constraints, decision, iteration) ==
  LET next == [constraints EXCEPT
                 !.adjustments = Some(PushAdjustment(constraints.adjustments, decision, iteration))]
      dr == next.priors.density_range
      protos == next.priors.prototypes
  IN  CASE decision.action = "widen_lattice" ->
             [next EXCEPT !.priors.density_range =
                [lo |-> Max(dr.den, dr.lo * 9), hi |-> dr.hi * 11, den |-> dr.den * 10]]
        [] decision.action = "narrow_density" ->
             [next EXCEPT !.priors.density_range =
                [lo |-> dr.lo * 21, hi |-> Max(dr.lo * 22, dr.hi * 19), den |-> dr.den * 20]]
        [] decision.action = "increase_max_atoms" ->
             [next EXCEPT !.overrides.max_atoms =
                IF @ # Absent THEN Some(@[1] + 5) ELSE Some(150)]
        [] decision.action = "increase_min_distance_scale" ->
             [next EXCEPT !.overrides.min_distance_scale =
                IF @ # Absent THEN Some(@[1] + 5) ELSE Some(105)]
        [] decision.action = "expand_prototypes" ->
             [next EXCEPT !.priors.prototypes = Append(protos, "proto_extra")]
        [] decision.action = "restrict_prototypes" ->
             [next EXCEPT !.priors.prototypes =
                SubSeq(protos, 1, Max(1, Len(protos) - 1))]
        [] OTHER -> next

(***************************************************************************)
(* Workflow engine: state                                                  *)
(***************************************************************************)
VARIABLES
  disk,        \* disk[w][run_id]: the run directory <w>/runs/<run_id>
  cmd,         \* the CLI invocation in progress: its position and locals
  toolClient,  \* the tool client of the invocation in progress
  out,         \* out[w]: stdout line and exit code of the last invocation on w
  clock        \* wall clock: advances with every invocation

vars == <<disk, cmd, toolClient, out, clock>>

\* workflows createRunId: run_<seed>_<8 hex digits>
createRunId(seed, objective) ==
  [ seed |-> seed,
    hex |-> RngNextHex(normalizeSeed(Xor32(SeedWord(seed), seedFromString(objective))), 8) ]

\* the run ids of the seeds and objectives of the model
RunIds == {createRunId(s, o) : s \in Seeds, o \in Objectives}

\* a run directory that does not exist
NoRun ==
  [ dirs |-> {}, manifest |-> Absent, constraints |-> Absent, events |-> <<>>,
    candidates |-> {}, reports |-> {}, summary |-> Absent,
    iterations |-> {}, exports |-> {} ]

RunDirs == {"run", "candidates", "validation", "exports"}

Idle == [pc |-> "idle"]

\* the tool clients: StubToolClient (--dry-run), RealMcpClient without a
\* handler (the CLI without --dry-run: every call throws), and a ToolClient
\* with a handler (any implementation handed to the exported workflows)
ClientKinds == {"stub", "real", "handler"}

\* a client whose rng is seeded from the seed and the time of construction
NewClientSeededByTime(kind, seed, truthThreshold) ==
  [kind |-> kind, state |-> SeededRng(seed + clock), truthThreshold |-> truthThreshold]

\* the client built without looking at --dry-run: always the real one
NewClientIgnoringDryRun(kind, seed, truthThreshold) ==
  [kind |-> "real", state |-> SeededRng(seed), truthThreshold |-> truthThreshold]

NewClient(kind, seed, truthThreshold) ==
  [kind |-> kind, state |-> SeededRng(seed), truthThreshold |-> truthThreshold]

(***************************************************************************)
(* Outcomes of a tool call: [ok, state, value]; ok = FALSE is a throw      *)
(***************************************************************************)
Threw(client) == [ok |-> FALSE, state |-> client.state, value |-> <<>>]
Returned(client, r) == [ok |-> TRUE, state |-> r.state, value |-> r.value]
Plain(client, v) == [ok |-> TRUE, state |-> client.state, value |-> v]

\* what the handler-backed client answers
HandlerCandidates ==
  << [candidate_id |-> 2, score |-> 5000, format |-> "cif", content |-> <<"cif", 2>>],
     [candidate_id |-> 1, score |-> 5000, format |-> "cif", content |-> <<"cif", 1>>] >>

\* its validations: all candidates tied and no summary, or the last one best,
\* only geometric checks and a summary of its own
HandlerPatterns == {"ties", "last_best"}

HandlerScore(pattern, i, n) ==
  IF pattern = "ties" THEN 6000 ELSE IF i = n THEN 9000 ELSE 6000

HandlerChecks(pattern, score) ==
  IF pattern = "last_best"
  THEN << [name |-> "parseable", passed |-> TRUE],
          [name |-> "min_distance", passed |-> score >= 7000],
          [name |-> "coordination_reasonable", passed |-> score >= 7000] >>
  ELSE StubChecks(score)

HandlerReports(candidates, pattern, truthThreshold) ==
  [i \in 1..Len(candidates) |->
     LET score == HandlerScore(pattern, i, Len(candidates))
     IN  [ candidate_id |-> candidates[i].candidate_id,
           truth_score |-> score,
           accept |-> score >= truthThreshold,
           checks |-> HandlerChecks(pattern, score) ]]

\* a summary computed by the tool its own way: every report counted as
\* accepted and the first report named best
ForeignSummary(reports) ==
  [ summarizeValidation(reports, 0) EXCEPT
      !.best_candidate_id = IF reports = <<>> THEN EmptyId
                            ELSE reports[1].candidate_id ]

CallSuggestChemistries(client) ==
  CASE client.kind = "stub" -> {Returned(client, StubSuggestChemistries(client.state))}
    [] client.kind = "real" -> {Threw(client)}
    [] OTHER -> {Plain(client, [chemistries |-> CHEMISTRY_TABLE[1]])}

CallFetchPriors(client) ==
  CASE client.kind = "stub" -> {Returned(client, StubFetchPriors(client.state))}
    [] client.kind = "real" -> {Threw(client)}
    [] OTHER -> {Plain(client, [priors |-> PRIOR_TABLE[1]])}

CallBuildConstraints(client, input) ==
  CASE client.kind = "stub" -> {Plain(client, StubBuildConstraints(input))}
    [] client.kind = "real" -> {Threw(client)}
    [] OTHER -> {Plain(client, StubBuildConstraints(input))}

CallRunQlip(client) ==
  CASE client.kind = "stub" -> {Returned(client, StubRunQlip(client.state))}
    [] client.kind = "real" -> {Threw(client)}
    [] OTHER -> {Plain(client, [candidates |-> HandlerCandidates])}

CallBatchValidate(client, candidates, truthThreshold) ==
  CASE client.kind = "stub" ->
         {Returned(client, StubBatchValidate(client.state, candidates, client.truthThreshold))}
    [] client.kind = "real" -> {Threw(client)}
    [] OTHER ->
         {Threw(client)} \cup
         { Plain(client,
                 [ reports |-> HandlerReports(candidates, p, truthThreshold),
                   summary |-> IF p = "last_best"
                               THEN Some(ForeignSummary(
                                      HandlerReports(candidates, p, truthThreshold)))
                               ELSE Absent ]) : p \in HandlerPatterns }

(***************************************************************************)
(* Artifact store: operations on one run directory                         *)
(***************************************************************************)
ensureRunDirectories(d) == [d EXCEPT !.dirs = RunDirs]

\* appendEvent writing the file anew (fs.writeFile for fs.appendFile)
appendEventOverwriting(d, event) ==
  [d EXCEPT !.dirs = @ \cup {"run"}, !.events = <<event>>]

appendEvent(d, event) ==
  [d EXCEPT !.dirs = @ \cup {"run"}, !.events = Append(@, event)]

\* JSON.parse(JSON.stringify(x)) is x for the values written here (no
\* undefined, NaN or non-plain object), so a JSON file holds the value
writeManifest(d, manifest) ==
  [d EXCEPT !.dirs = @ \cup {"run"}, !.manifest = Some(manifest)]

writeConstraints(d, constraints) ==
  [d EXCEPT !.dirs = @ \cup {"run"}, !.constraints = Some(constraints)]

RECURSIVE PutCandidates(_, _)
PutCandidates(files, candidates) ==
  IF candidates = <<>> THEN files
  ELSE PutCandidates(
         {f \in files : f.candidate_id # Head(candidates).candidate_id}
           \cup {[candidate_id |-> Head(candidates).candidate_id,
                  content |-> Head(candidates).content]},
         Tail(candidates))

\* writeCandidates appending to a file that exists instead of replacing it
writeCandidatesAppending(d, candidates) ==
  [d EXCEPT !.dirs = @ \cup {"run", "candidates"},
            !.candidates =
               {f \in @ : \A i \in 1..Len(candidates) :
                            candidates[i].candidate_id # f.candidate_id}
               \cup { [ candidate_id |-> candidates[i].candidate_id,
                        content |->
                          IF \E f \in @ : f.candidate_id = candidates[i].candidate_id
                          THEN (CHOOSE f \in @ :
                                  f.candidate_id = candidates[i].candidate_id).content
                               \o candidates[i].content
                          ELSE candidates[i].content ] : i \in 1..Len(candidates) }]

writeCandidates(d, candidates) ==
  [d EXCEPT !.dirs = @ \cup {"run", "candidates"},
            !.candidates = PutCandidates(@, candidates)]

RECURSIVE PutReports(_, _)
PutReports(files, reports) ==
  IF reports = <<>> THEN files
  ELSE PutReports({f \in files : f.candidate_id # Head(reports).candidate_id}
                    \cup {Head(reports)},
                  Tail(reports))

\* writeValidationReports also copying the chosen candidate and its score
\* into run_manifest.json
writeValidationReportsAndManifest(d, reports, summary) ==
  [d EXCEPT !.dirs = @ \cup {"run", "validation"},
            !.reports = PutReports(@, reports),
            !.summary = Some(summary),
            !.manifest =
               IF @ = Absent THEN @
               ELSE Some([@[1] EXCEPT
                            !.selected_candidate_id = Some(summary.best_candidate_id),
                            !.truth_score =
                               Some(ObjGet(summary.truth_scores,
                                           summary.best_candidate_id))])]

\* writeValidationReports writing the report files without summary.json
writeValidationReportsOnly(d, reports, summary) ==
  [d EXCEPT !.dirs = @ \cup {"run", "validation"},
            !.reports = PutReports(@, reports)]

writeValidationReports(d, reports, summary) ==
  [d EXCEPT !.dirs = @ \cup {"run", "validation"},
            !.reports = PutReports(@, reports),
            !.summary = Some(summary)]

writeIterationArtifact(d, iteration, data) ==
  [d EXCEPT !.dirs = @ \cup {"run"},
            !.iterations = {f \in @ : f.iteration # iteration} \cup {data}]

ensureManifest(d, manifest) ==
  appendEvent(writeManifest(d, manifest),
              [event |-> "run_manifest", run_id |-> manifest.run_id,
               status |-> manifest.status])

\* a finite set of numbers as the ascending sequence
RECURSIVE SortedSeq(_)
SortedSeq(S) ==
  IF S = {} THEN <<>>
  ELSE LET m == CHOOSE x \in S : \A y \in S : x <= y
       IN  <<m>> \o SortedSeq(S \ {m})

listCandidateIds(d) == SortedSeq({f.candidate_id : f \in d.candidates})

readCandidateContent(d, id) ==
  (CHOOSE f \in d.candidates : f.candidate_id = id).content

(***************************************************************************)
(* Canonical form and summary hash                                         *)
(***************************************************************************)
\* stableStringify of a summary: object keys in sorted order at every depth.
\* A TLA+ record has no key order, so only the insertion-ordered object
\* truth_scores has to be put in key order; arrays keep their order.
SortedByKey(obj) ==
  LET ids == SortedSeq({obj[i].candidate_id : i \in 1..Len(obj)})
  IN  [i \in 1..Len(ids) |->
         CHOOSE e \in {obj[j] : j \in 1..Len(obj)} : e.candidate_id = ids[i]]

stableStringify(summary) ==
  [summary EXCEPT !.truth_scores = SortedByKey(@)]

\* workflows computeSummaryHash (sha256Hex taken as injective)
computeSummaryHash(summary) == stableStringify(summary)

(***************************************************************************)
(* CLI invocations                                                         *)
(***************************************************************************)
\* contents of the config file an invocation finds (Absent: no file)
ConfigFiles == {Absent}

\* the command ends: one JSON line on stdout and the exit code
Finish(w, inv, json, exitCode) ==
  /\ cmd' = Idle
  /\ out' = [out EXCEPT ![w] = Some([inv |-> inv, json |-> json, exitCode |-> exitCode])]

\* the catch of runCspCli returning exit code 0 after writeError
CliCatchExitZero(message) ==
  /\ Finish(cmd.inv.workspace, cmd.inv,
            [command |-> cmd.inv.command, status |-> "error",
             error |-> message, exit_code |-> 1], 0)
  /\ UNCHANGED <<disk, clock>>

\* the catch of runCspCli: writeError and exit code 1; nothing else is done
CliCatch(message) ==
  /\ Finish(cmd.inv.workspace, cmd.inv,
            [command |-> cmd.inv.command, status |-> "error",
             error |-> message, exit_code |-> 1], 1)
  /\ UNCHANGED <<disk, clock>>

\* an invocation that fails before its first tool call
CliReject(inv, message) ==
  /\ Finish(inv.workspace, inv,
            [command |-> inv.command, status |-> "error",
             error |-> message, exit_code |-> 1], 1)
  /\ UNCHANGED disk

Dir(w, runId) == disk[w][runId]

\* the locals of an invocation
Locals(pc, inv) ==
  [ pc |-> pc, inv |-> inv, manifest |-> <<>>, selectedChemistry |-> "",
    priors |-> <<>>, constraints |-> <<>>, candidates |-> <<>>,
    decision |-> <<>>, nextIteration |-> 0 ]

\* workflows selectChemistry
selectChemistry(suggestions, seed) ==
  IF Len(suggestions) = 0 THEN "unknown"
  ELSE LET rng == normalizeSeed(Xor32(SeedWord(seed), <<63, 7211>>))
           index == RngNextInt(rng, Len(suggestions)).value
       IN  suggestions[index + 1].chem_system

\* the summary the workflows keep: the tool's own when it sent one
SummaryOf(value, truthThreshold) ==
  IF value.summary # Absent THEN value.summary[1]
  ELSE summarizeValidation(value.reports, truthThreshold)

CandidateIds(candidates) == [i \in 1..Len(candidates) |-> candidates[i].candidate_id]

(***************************************************************************)
(* csp:discover                                                            *)
(***************************************************************************)
Invocation(command, w, seed, objective, chem, config, kind, runId) ==
  [ command |-> command, workspace |-> w, seed |-> seed, objective |-> objective,
    chem_system |-> chem, config |-> config, kind |-> kind, run_id |-> runId ]

\* runCspCli up to the first tool call of runCspDiscover: resolve the config,
\* build the tool client, create the run directory, write the manifest with
\* status running and the first two events
DiscoverStartWith(w, seed, objective, chem, loaded, solver, maxIters, kind) ==
  /\ cmd.pc = "idle"
  /\ clock < MaxCmds
  /\ \E runId \in {createRunId(seed, objective)} :
     LET config == resolveConfig(loaded, w, solver, maxIters)
         now == clock
         manifest == [ run_id |-> runId, status |-> "running",
                       objective |-> objective,
                       chem_system |-> IF chem # "" THEN chem ELSE "pending",
                       seed |-> seed, created_at |-> now, updated_at |-> now,
                       iteration |-> 0,
                       max_iters |-> config.policy.max_iters,
                       selected_candidate_id |-> Absent,
                       truth_score |-> Absent,
                       config_snapshot |-> config ]
         inv == Invocation("csp:discover", w, seed, objective, chem, config, kind, runId)
         d1 == ensureManifest(ensureRunDirectories(Dir(w, runId)), manifest)
         d2 == appendEvent(d1, [event |-> "run_started", run_id |-> runId,
                                objective |-> objective])
     IN  /\ disk' = [disk EXCEPT ![w][runId] = d2]
         /\ toolClient' = NewClient(kind, seed, config.policy.truth_accept_threshold)
         /\ cmd' = [Locals(IF chem # "" THEN "fetch_priors" ELSE "suggest", inv)
                      EXCEPT !.manifest = manifest, !.selectedChemistry = chem]
  /\ clock' = clock + 1
  /\ UNCHANGED out

\* a discover without --solver
DiscoverStart(w, seed, objective, chem, loaded, maxIters, kind) ==
  DiscoverStartWith(w, seed, objective, chem, loaded, "", maxIters, kind)

\* suggest_chemistries returns and build_constraints is called next, the
\* fetch_priors call being left out
DiscoverSuggestThenBuild ==
  /\ cmd.pc = "suggest"
  /\ \E o \in CallSuggestChemistries(toolClient) :
       IF o.ok
       THEN /\ cmd' = [cmd EXCEPT !.pc = "build_constraints",
                         !.selectedChemistry =
                            selectChemistry(o.value.chemistries, cmd.inv.seed)]
            /\ toolClient' = [toolClient EXCEPT !.state = o.state]
            /\ UNCHANGED <<disk, out, clock>>
       ELSE /\ CliCatch("tool call failed")
            /\ UNCHANGED toolClient

\* materials-data-mcp.suggest_chemistries returns or throws
DiscoverSuggest ==
  /\ cmd.pc = "suggest"
  /\ \E o \in CallSuggestChemistries(toolClient) :
       IF o.ok
       THEN /\ cmd' = [cmd EXCEPT !.pc = "fetch_priors",
                         !.selectedChemistry =
                            selectChemistry(o.value.chemistries, cmd.inv.seed)]
            /\ toolClient' = [toolClient EXCEPT !.state = o.state]
            /\ UNCHANGED <<disk, out, clock>>
       ELSE /\ CliCatch("tool call failed")
            /\ UNCHANGED toolClient

\* materials-data-mcp.fetch_priors returns or throws
DiscoverFetchPriors ==
  /\ cmd.pc = "fetch_priors"
  /\ \E o \in CallFetchPriors(toolClient) :
       IF o.ok
       THEN /\ cmd' = [cmd EXCEPT !.pc = "build_constraints", !.priors = o.value.priors]
            /\ toolClient' = [toolClient EXCEPT !.state = o.state]
            /\ UNCHANGED <<disk, out, clock>>
       ELSE /\ CliCatch("tool call failed")
            /\ UNCHANGED toolClient

\* qlip-mcp.build_constraints returns or throws; constraints.json is written
DiscoverBuildConstraints ==
  /\ cmd.pc = "build_constraints"
  /\ \E o \in CallBuildConstraints(toolClient,
                [ chem_system |-> cmd.selectedChemistry, priors |-> cmd.priors,
                  overrides |-> [ solver |-> cmd.inv.config.qlip.solver,
                                  max_atoms |-> Some(cmd.inv.config.qlip.max_atoms),
                                  min_distance_scale |-> Absent ] ]) :
       IF o.ok
       THEN /\ cmd' = [cmd EXCEPT !.pc = "run_qlip", !.constraints = o.value.constraints]
            /\ disk' = [disk EXCEPT ![cmd.inv.workspace][cmd.inv.run_id] =
                          writeConstraints(@, o.value.constraints)]
            /\ toolClient' = [toolClient EXCEPT !.state = o.state]
            /\ UNCHANGED <<out, clock>>
       ELSE /\ CliCatch("tool call failed")
            /\ UNCHANGED toolClient

\* qlip-mcp.run_qlip returns or throws; the candidate files are written
DiscoverRunQlip ==
  /\ cmd.pc = "run_qlip"
  /\ \E o \in CallRunQlip(toolClient) :
       IF o.ok
       THEN /\ cmd' = [cmd EXCEPT !.pc = "batch_validate", !.candidates = o.value.candidates]
            /\ disk' = [disk EXCEPT ![cmd.inv.workspace][cmd.inv.run_id] =
                          writeCandidates(@, o.value.candidates)]
            /\ toolClient' = [toolClient EXCEPT !.state = o.state]
            /\ UNCHANGED <<out, clock>>
       ELSE /\ CliCatch("tool call failed")
            /\ UNCHANGED toolClient

\* csp-validators-mcp.batch_validate returns or throws; reports, summary and
\* the manifest with status ok are written and the result is printed
DiscoverValidate ==
  /\ cmd.pc = "batch_validate"
  /\ \E o \in CallBatchValidate(toolClient, cmd.candidates,
                                cmd.inv.config.policy.truth_accept_threshold) :
       IF o.ok
       THEN LET summary == SummaryOf(o.value, cmd.inv.config.policy.truth_accept_threshold)
                chosenCandidateId == summary.best_candidate_id
                truthScore == ObjGet(summary.truth_scores, chosenCandidateId)
                updatedManifest ==
                  [cmd.manifest EXCEPT !.status = "ok",
                     !.chem_system = cmd.selectedChemistry,
                     !.updated_at = clock,
                     !.selected_candidate_id = Some(chosenCandidateId),
                     !.truth_score = Some(truthScore)]
                w == cmd.inv.workspace
            IN  /\ disk' = [disk EXCEPT ![w][cmd.inv.run_id] =
                     ensureManifest(writeValidationReports(@, o.value.reports, summary),
                                    updatedManifest)]
                /\ Finish(w, cmd.inv,
                     [ command |-> "csp:discover", status |-> "ok",
                       run_id |-> cmd.inv.run_id, workspace_dir |-> w,
                       selected_chemistry |-> cmd.selectedChemistry,
                       chosen_candidate_id |-> chosenCandidateId,
                       truth_score |-> truthScore,
                       candidate_ids |-> CandidateIds(cmd.candidates),
                       summary_hash |-> computeSummaryHash(summary),
                       iteration |-> 0 ], 0)
                /\ toolClient' = [toolClient EXCEPT !.state = o.state]
                /\ UNCHANGED clock
       ELSE /\ CliCatch("tool call failed")
            /\ UNCHANGED toolClient

(***************************************************************************)
(* csp:iterate                                                             *)
(***************************************************************************)
\* nextIteration skipping a number
NextIterationSkipping(manifest) == manifest.iteration + 2

\* const nextIteration = manifest.iteration + 1
NextIterationOf(manifest) == manifest.iteration + 1

\* the guard comparing the current iteration instead of the next one
MaxItersReachedOffByOne(manifest, config) ==
  manifest.iteration > config.policy.max_iters

\* the guard of runCspIterate: nextIteration > input.config.policy.max_iters
MaxItersReached(manifest, config) ==
  NextIterationOf(manifest) > config.policy.max_iters

\* runCspCli and runCspIterate up to run_qlip: read manifest, summary and
\* constraints (a missing file throws), check max_iters, decide, apply and
\* write constraints.json
IterateStart(w, runId, seed, loaded, maxIters, kind) ==
  /\ cmd.pc = "idle"
  /\ clock < MaxCmds
  /\ clock' = clock + 1
  /\ LET config == resolveConfig(loaded, w, "", maxIters)
         inv == Invocation("csp:iterate", w, seed, <<>>, "", config, kind, runId)
         d == Dir(w, runId)
     IN  /\ toolClient' = NewClient(kind, seed, config.policy.truth_accept_threshold)
         /\ IF d.manifest = Absent \/ d.summary = Absent \/ d.constraints = Absent
            THEN CliReject(inv, "ENOENT")
            ELSE IF MaxItersReached(d.manifest[1], config)
            THEN CliReject(inv, "Max iterations reached")
            ELSE LET nextIteration == NextIterationOf(d.manifest[1])
                     decision == decideIteration(d.summary[1], config.policy, nextIteration)
                     nextConstraints ==
                       applyIterationDecision(d.constraints[1], decision, nextIteration)
                 IN  /\ disk' = [disk EXCEPT ![w][runId] = writeConstraints(@, nextConstraints)]
                     /\ cmd' = [Locals("iter_run_qlip", inv) EXCEPT
                                  !.manifest = d.manifest[1],
                                  !.constraints = nextConstraints,
                                  !.decision = decision,
                                  !.nextIteration = nextIteration]
                     /\ UNCHANGED out

\* qlip-mcp.run_qlip returns or throws; the candidate files are written
IterateRunQlip ==
  /\ cmd.pc = "iter_run_qlip"
  /\ \E o \in CallRunQlip(toolClient) :
       IF o.ok
       THEN /\ cmd' = [cmd EXCEPT !.pc = "iter_batch_validate",
                                  !.candidates = o.value.candidates]
            /\ disk' = [disk EXCEPT ![cmd.inv.workspace][cmd.inv.run_id] =
                          writeCandidates(@, o.value.candidates)]
            /\ toolClient' = [toolClient EXCEPT !.state = o.state]
            /\ UNCHANGED <<out, clock>>
       ELSE /\ CliCatch("tool call failed")
            /\ UNCHANGED toolClient

\* the iterate stamping its own seed and config on the manifest instead of
\* spreading the manifest it read
IterateValidateRestamping ==
  /\ cmd.pc = "iter_batch_validate"
  /\ \E o \in CallBatchValidate(toolClient, cmd.candidates,
                                cmd.inv.config.policy.truth_accept_threshold) :
       IF o.ok
       THEN LET summary == SummaryOf(o.value, cmd.inv.config.policy.truth_accept_threshold)
                summaryHash == computeSummaryHash(summary)
                chosenCandidateId == summary.best_candidate_id
                truthScore == ObjGet(summary.truth_scores, chosenCandidateId)
                artifact == [ iteration |-> cmd.nextIteration,
                              decision |-> cmd.decision,
                              summary_hash |-> summaryHash,
                              chosen_candidate_id |-> chosenCandidateId,
                              truth_score |-> truthScore ]
                updatedManifest ==
                  [cmd.manifest EXCEPT !.iteration = cmd.nextIteration,
                     !.updated_at = clock,
                     !.selected_candidate_id = Some(chosenCandidateId),
                     !.truth_score = Some(truthScore),
                     !.status = "ok",
                     !.seed = cmd.inv.seed,
                     !.max_iters = cmd.inv.config.policy.max_iters,
                     !.config_snapshot = cmd.inv.config]
                w == cmd.inv.workspace
            IN  /\ disk' = [disk EXCEPT ![w][cmd.inv.run_id] =
                     ensureManifest(
                       writeIterationArtifact(
                         writeValidationReports(@, o.value.reports, summary),
                         cmd.nextIteration, artifact),
                       updatedManifest)]
                /\ Finish(w, cmd.inv,
                     [ command |-> "csp:iterate", status |-> "ok",
                       run_id |-> cmd.inv.run_id, workspace_dir |-> w,
                       selected_chemistry |-> cmd.manifest.chem_system,
                       chosen_candidate_id |-> chosenCandidateId,
                       truth_score |-> truthScore,
                       candidate_ids |-> CandidateIds(cmd.candidates),
                       summary_hash |-> summaryHash,
                       iteration |-> cmd.nextIteration ], 0)
                /\ toolClient' = [toolClient EXCEPT !.state = o.state]
                /\ UNCHANGED clock
       ELSE /\ CliCatch("tool call failed")
            /\ UNCHANGED toolClient

\* csp-validators-mcp.batch_validate returns or throws; reports, summary,
\* iteration_<n>.json and the manifest are written and the result is printed
IterateValidate ==
  /\ cmd.pc = "iter_batch_validate"
  /\ \E o \in CallBatchValidate(toolClient, cmd.candidates,
                                cmd.inv.config.policy.truth_accept_threshold) :
       IF o.ok
       THEN LET summary == SummaryOf(o.value, cmd.inv.config.policy.truth_accept_threshold)
                summaryHash == computeSummaryHash(summary)
                chosenCandidateId == summary.best_candidate_id
                truthScore == ObjGet(summary.truth_scores, chosenCandidateId)
                artifact == [ iteration |-> cmd.nextIteration,
                              decision |-> cmd.decision,
                              summary_hash |-> summaryHash,
                              chosen_candidate_id |-> chosenCandidateId,
                              truth_score |-> truthScore ]
                updatedManifest ==
                  [cmd.manifest EXCEPT !.iteration = cmd.nextIteration,
                     !.updated_at = clock,
                     !.selected_candidate_id = Some(chosenCandidateId),
                     !.truth_score = Some(truthScore),
                     !.status = "ok"]
                w == cmd.inv.workspace
            IN  /\ disk' = [disk EXCEPT ![w][cmd.inv.run_id] =
                     ensureManifest(
                       writeIterationArtifact(
                         writeValidationReports(@, o.value.reports, summary),
                         cmd.nextIteration, artifact),
                       updatedManifest)]
                /\ Finish(w, cmd.inv,
                     [ command |-> "csp:iterate", status |-> "ok",
                       run_id |-> cmd.inv.run_id, workspace_dir |-> w,
                       selected_chemistry |-> cmd.manifest.chem_system,
                       chosen_candidate_id |-> chosenCandidateId,
                       truth_score |-> truthScore,
                       candidate_ids |-> CandidateIds(cmd.candidates),
                       summary_hash |-> summaryHash,
                       iteration |-> cmd.nextIteration ], 0)
                /\ toolClient' = [toolClient EXCEPT !.state = o.state]
                /\ UNCHANGED clock
       ELSE /\ CliCatch("tool call failed")
            /\ UNCHANGED toolClient

(***************************************************************************)
(* csp:validate                                                            *)
(***************************************************************************)
\* runCspCli and runCspValidate up to batch_validate: read constraints.json
\* (missing throws) and rebuild the candidates from the files, ids ascending
ValidateStart(w, runId, seed, loaded, kind) ==
  /\ cmd.pc = "idle"
  /\ clock < MaxCmds
  /\ clock' = clock + 1
  /\ LET config == resolveConfig(loaded, w, "", Absent)
         inv == Invocation("csp:validate", w, seed, <<>>, "", config, kind, runId)
         d == Dir(w, runId)
         candidateIds == listCandidateIds(d)
     IN  /\ toolClient' = NewClient(kind, seed, config.policy.truth_accept_threshold)
         /\ IF d.constraints = Absent
            THEN CliReject(inv, "ENOENT")
            ELSE /\ cmd' = [Locals("val_batch_validate", inv) EXCEPT
                              !.constraints = d.constraints[1],
                              !.candidates =
                                 [i \in 1..Len(candidateIds) |->
                                    [ candidate_id |-> candidateIds[i], score |-> 0,
                                      format |-> "cif",
                                      content |-> readCandidateContent(d, candidateIds[i]) ]]]
                 /\ UNCHANGED <<disk, out>>

\* the default of --top-k
DefaultTopK == 20

\* csp-validators-mcp.batch_validate returns or throws; reports and summary
\* are written and the result is printed
ValidateBatch ==
  /\ cmd.pc = "val_batch_validate"
  /\ \E o \in CallBatchValidate(toolClient, cmd.candidates,
                                cmd.inv.config.policy.truth_accept_threshold) :
       IF o.ok
       THEN LET summary == SummaryOf(o.value, cmd.inv.config.policy.truth_accept_threshold)
                w == cmd.inv.workspace
            IN  /\ disk' = [disk EXCEPT ![w][cmd.inv.run_id] =
                     writeValidationReports(@, o.value.reports, summary)]
                /\ Finish(w, cmd.inv,
                     [ command |-> "csp:validate", status |-> "ok",
                       run_id |-> cmd.inv.run_id, workspace_dir |-> w,
                       summary_hash |-> computeSummaryHash(summary),
                       best_candidate_id |-> summary.best_candidate_id,
                       top_k |-> DefaultTopK,
                       top_candidates |->
                         SubSeq(summary.top_candidates, 1,
                                IF Len(summary.top_candidates) < DefaultTopK
                                THEN Len(summary.top_candidates) ELSE DefaultTopK) ], 0)
                /\ toolClient' = [toolClient EXCEPT !.state = o.state]
                /\ UNCHANGED clock
       ELSE /\ CliCatch("tool call failed")
            /\ UNCHANGED toolClient

(***************************************************************************)
(* csp:export                                                              *)
(***************************************************************************)
Formats == {"cif", "poscar"}
\* values of --top-k
TopKs == {1, 3}

RECURSIVE PutExports(_, _)
PutExports(files, exportsList) ==
  IF exportsList = <<>> THEN files
  ELSE PutExports(
         {f \in files : ~(f.candidate_id = Head(exportsList).candidate_id
                          /\ f.extension = Head(exportsList).extension)}
           \cup {Head(exportsList)},
         Tail(exportsList))

\* writeExports naming every file <candidate_id>.cif, whatever the format
writeExportsAsCif(d, exportsList) ==
  [d EXCEPT !.dirs = @ \cup {"run", "exports"},
            !.exports = PutExports(@, [i \in 1..Len(exportsList) |->
                                        [exportsList[i] EXCEPT !.extension = "cif"]])]

\* artifacts writeExports: ensureDir(exportsDir), then one file per entry
writeExports(d, exportsList) ==
  [d EXCEPT !.dirs = @ \cup {"run", "exports"},
            !.exports = PutExports(@, exportsList)]

\* runCspCli and runCspExport: no tool call.  The order is the summary's
\* top_candidates, or the candidate files when summary.json cannot be read;
\* reading a candidate file that is missing throws before anything is written
Export(w, runId, format, topK) ==
  /\ cmd.pc = "idle"
  /\ clock < MaxCmds
  /\ clock' = clock + 1
  /\ LET inv == Invocation("csp:export", w, 1, <<>>, "", resolveConfig(Absent, w, "", Absent),
                           "real", runId)
         d == Dir(w, runId)
         candidateOrder == IF d.summary # Absent
                           THEN CandidateIds(d.summary[1].top_candidates)
                           ELSE listCandidateIds(d)
         selected == SubSeq(candidateOrder, 1,
                            IF Len(candidateOrder) < Max(1, topK)
                            THEN Len(candidateOrder) ELSE Max(1, topK))
         exportsList ==
           [i \in 1..Len(selected) |->
              [ candidate_id |-> selected[i],
                content |-> IF format = "poscar"
                            THEN <<"# POSCAR placeholder for", selected[i],
                                   readCandidateContent(d, selected[i])>>
                            ELSE readCandidateContent(d, selected[i]),
                extension |-> format ]]
     IN  /\ toolClient' = NewClient("real", 1, inv.config.policy.truth_accept_threshold)
         /\ IF \E i \in 1..Len(selected) :
                 selected[i] \notin {f.candidate_id : f \in d.candidates}
            THEN CliReject(inv, "ENOENT")
            ELSE /\ disk' = [disk EXCEPT ![w][runId] = writeExports(@, exportsList)]
                 /\ Finish(w, inv,
                      [ command |-> "csp:export", status |-> "ok", run_id |-> runId,
                        workspace_dir |-> w, format |-> format, top_k |-> topK,
                        exports |-> [i \in 1..Len(selected) |->
                                       [candidate_id |-> selected[i],
                                        extension |-> format]] ], 0)

(***************************************************************************)
(* Specifications                                                          *)
(***************************************************************************)
InitOn(workspaces) ==
  /\ clock = 0
  /\ disk = [w \in workspaces |-> [r \in RunIds |-> NoRun]]
  /\ cmd = Idle
  /\ toolClient = NewClient("real", 1, 8000)
  /\ out = [w \in workspaces |-> Absent]

Init == InitOn({"W1"})

\* the clients runCspCli builds: StubToolClient with --dry-run, RealMcpClient
\* without a handler otherwise
CliClients == {"stub", "real"}

\* one step of one command, its tool client of one of the given kinds
Commands(kinds) ==
  \/ \E w \in DOMAIN disk, seed \in Seeds, objective \in Objectives,
        chem \in ChemFlags, loaded \in ConfigFiles, maxIters \in MaxItersFlags,
        kind \in kinds :
       DiscoverStart(w, seed, objective, chem, loaded, maxIters, kind)
  \/ DiscoverSuggest
  \/ DiscoverFetchPriors
  \/ DiscoverBuildConstraints
  \/ DiscoverRunQlip
  \/ DiscoverValidate
  \/ \E w \in DOMAIN disk : \E runId \in DOMAIN disk[w], seed \in Seeds,
        loaded \in ConfigFiles, maxIters \in MaxItersFlags, kind \in kinds :
       IterateStart(w, runId, seed, loaded, maxIters, kind)
  \/ IterateRunQlip
  \/ IterateValidate
  \/ \E w \in DOMAIN disk : \E runId \in DOMAIN disk[w], seed \in Seeds,
        loaded \in ConfigFiles, kind \in kinds :
       ValidateStart(w, runId, seed, loaded, kind)
  \/ ValidateBatch
  \/ \E w \in DOMAIN disk : \E runId \in DOMAIN disk[w], format \in Formats, topK \in TopKs :
       Export(w, runId, format, topK)

\* the commands as the CLI runs them
Next == Commands(CliClients)

Spec == Init /\ [][Next]_vars

\* the workflows driven with a ToolClient implementation of the caller
NextLibrary == Commands({"handler"})

SpecLibrary == Init /\ [][NextLibrary]_vars

\* a workspace in which no command has run yet
Fresh(w) == disk[w] = [r \in RunIds |-> NoRun]

\* dry-run discovers, each in a fresh workspace with a new stub client
NextDryRun ==
  \/ \E w \in DOMAIN disk, seed \in Seeds, objective \in Objectives,
        chem \in ChemFlags, loaded \in ConfigFiles, maxIters \in MaxItersFlags :
       Fresh(w) /\ DiscoverStart(w, seed, objective, chem, loaded, maxIters, "stub")
  \/ DiscoverSuggest
  \/ DiscoverFetchPriors
  \/ DiscoverBuildConstraints
  \/ DiscoverRunQlip
  \/ DiscoverValidate

SpecDryRun == InitOn({"W1", "W2"}) /\ [][NextDryRun]_vars

\* summarizeValidation on its own: the report lists handed to it
MaxReports == 3
ReportIds == {1, 2, 3}
ReportScores == {5000, 8000}

ReportsGiven ==
  { [candidate_id |-> i, truth_score |-> t, accept |-> t >= DEFAULT_CONFIG.policy.truth_accept_threshold,
     checks |-> StubChecks(t)] : i \in ReportIds, t \in ReportScores }

\* the thresholds summarizeValidation is called with: the default and a lower one
TruthThresholds == {5000, DEFAULT_CONFIG.policy.truth_accept_threshold}

ReportLists == UNION {[1..n -> ReportsGiven] : n \in 0..MaxReports}

InitSummarize ==
  /\ clock = 0
  /\ disk = [w \in {"W1"} |-> [r \in RunIds |-> NoRun]]
  /\ \E reports \in ReportLists, threshold \in TruthThresholds :
       cmd = [ pc |-> "summarize", reports |-> reports,
               truthAcceptThreshold |-> threshold ]
  /\ toolClient = NewClient("real", 1, 8000)
  /\ out = [w \in {"W1"} |-> Absent]

\* one call of summarizeValidation; its arguments and result are kept
Summarize ==
  /\ cmd.pc = "summarize"
  /\ out' = [out EXCEPT !["W1"] =
               Some([ reports |-> cmd.reports,
                      truthAcceptThreshold |-> cmd.truthAcceptThreshold,
                      summary |-> summarizeValidation(cmd.reports,
                                                      cmd.truthAcceptThreshold) ])]
  /\ cmd' = Idle
  /\ UNCHANGED <<disk, toolClient, clock>>

SpecSummarize == InitSummarize /\ [][Summarize]_vars

(***************************************************************************)
(* Properties                                                              *)
(***************************************************************************)
\* the output of the last command finished in workspace w
Printed(w) == out[w][1]

\* no command is running and the last one in w ended with exit code 0
Succeeded(w) == cmd.pc = "idle" /\ out[w] # Absent /\ Printed(w).exitCode = 0

\* the last command in w was `command' and it succeeded
SucceededAs(w, command) == Succeeded(w) /\ Printed(w).inv.command = command

\* constraints.json's adjustments (a missing key reads as the empty list)
AdjustmentsOf(constraints) ==
  IF constraints.adjustments = Absent THEN <<>> ELSE constraints.adjustments[1]

\* the run directories of w that hold a manifest
RunsOf(w) == {r \in DOMAIN disk[w] : disk[w][r].manifest # Absent}

\* C1: two dry-run discovers with the same seed, objective and --chem-system,
\* each in a fresh workspace with its own new stub client, print the same
\* candidate_ids, summary_hash and chosen_candidate_id, whatever the
\* workspace and the time of the run.
C1_DryRunDeterminism ==
  \A w1, w2 \in DOMAIN out :
    ( /\ SucceededAs(w1, "csp:discover")
      /\ SucceededAs(w2, "csp:discover")
      /\ Printed(w1).inv.seed = Printed(w2).inv.seed
      /\ Printed(w1).inv.objective = Printed(w2).inv.objective
      /\ Printed(w1).inv.chem_system = Printed(w2).inv.chem_system )
    => /\ Printed(w1).json.candidate_ids = Printed(w2).json.candidate_ids
       /\ Printed(w1).json.summary_hash = Printed(w2).json.summary_hash
       /\ Printed(w1).json.chosen_candidate_id = Printed(w2).json.chosen_candidate_id

\* C1 witness: two finished dry-run discovers with equal arguments in two
\* workspaces, started at different times
C1_TwoEqualDiscovers ==
  /\ SucceededAs("W1", "csp:discover")
  /\ SucceededAs("W2", "csp:discover")
  /\ Printed("W1").inv.seed = Printed("W2").inv.seed
  /\ Printed("W1").inv.objective = Printed("W2").inv.objective
  /\ Printed("W1").inv.chem_system = Printed("W2").inv.chem_system
  /\ Printed("W1").inv.kind = "stub"
  /\ Printed("W2").inv.kind = "stub"
  /\ disk["W1"][Printed("W1").inv.run_id].manifest[1].created_at
       # disk["W2"][Printed("W2").inv.run_id].manifest[1].created_at

\* C2 (as stated): after every successfully completed command the manifests
\* on disk satisfy iteration <= max_iters, max_iters being the manifest's own.
C2_IterationWithinMaxIters ==
  \A w \in DOMAIN disk :
    Succeeded(w) =>
      \A r \in RunsOf(w) :
        disk[w][r].manifest[1].iteration <= disk[w][r].manifest[1].max_iters

\* C3 (as stated): when a tool call of discover or iterate has failed and the
\* error has reached the caller, the manifest on disk has status error.
C3_ToolFailureMarksManifest ==
  \A w \in DOMAIN disk :
    ( /\ cmd.pc = "idle"
      /\ out[w] # Absent
      /\ Printed(w).inv.command \in {"csp:discover", "csp:iterate"}
      /\ Printed(w).json.status = "error"
      /\ Printed(w).json.error = "tool call failed" )
    => disk[w][Printed(w).inv.run_id].manifest[1].status = "error"

\* C4 (as stated): between commands, finished or aborted by a failing tool
\* call, the number of adjustments in constraints.json equals the manifest's
\* iteration.
C4_AdjustmentsMatchIteration ==
  \A w \in DOMAIN disk :
    cmd.pc = "idle" =>
      \A r \in RunsOf(w) :
        disk[w][r].constraints # Absent =>
          Len(AdjustmentsOf(disk[w][r].constraints[1])) = disk[w][r].manifest[1].iteration

\* C5 (as stated): a manifest whose status is ok or error is never rewritten
\* with status running.
C5_StatusNeverBackToRunning ==
  [][ \A w \in DOMAIN disk : \A r \in RunsOf(w) :
        disk[w][r].manifest[1].status \in {"ok", "error"} =>
          disk'[w][r].manifest[1].status # "running" ]_vars

\* the step writes validation/summary.json of run r in w
WritesSummary(w, r) ==
  /\ cmd.pc \in {"batch_validate", "iter_batch_validate", "val_batch_validate"}
  /\ cmd.inv.workspace = w
  /\ cmd.inv.run_id = r
  /\ cmd'.pc = "idle"
  /\ out'[w][1].exitCode = 0

\* C6 (as stated): the summary that discover, iterate and validate write to
\* validation/summary.json and hash into summary_hash is summarizeValidation
\* of the reports the tool returned, whatever summary the tool sent along.
C6_SummaryRecomputed ==
  [][ \A w \in DOMAIN disk : \A r \in DOMAIN disk[w] :
        WritesSummary(w, r) =>
          \E o \in CallBatchValidate(toolClient, cmd.candidates,
                                     cmd.inv.config.policy.truth_accept_threshold) :
            /\ o.ok
            /\ disk'[w][r].reports = PutReports(disk[w][r].reports, o.value.reports)
            /\ LET recomputed ==
                     summarizeValidation(o.value.reports,
                                         cmd.inv.config.policy.truth_accept_threshold)
               IN  /\ disk'[w][r].summary = Some(recomputed)
                   /\ out'[w][1].json.summary_hash = computeSummaryHash(recomputed) ]_vars

\* C7: an iterate invoked on a run whose manifest.iteration + 1 exceeds
\* max_iters (the policy.max_iters of the invocation's resolved config, which
\* is what the guard reads) prints an error, exits 1 and writes nothing: the
\* manifest, constraints, candidates, validation files, iteration artifacts
\* and events are as before.
C7_MaxItersRejected ==
  [][ \A w \in DOMAIN disk : \A runId \in RunsOf(w) :
        \A seed \in Seeds, loaded \in ConfigFiles, maxIters \in MaxItersFlags,
           kind \in ClientKinds :
          ( /\ IterateStart(w, runId, seed, loaded, maxIters, kind)
            /\ disk[w][runId].manifest[1].iteration + 1
                 > resolveConfig(loaded, w, "", maxIters).policy.max_iters )
          => /\ disk' = disk
             /\ cmd'.pc = "idle"
             /\ out'[w][1].exitCode = 1
             /\ out'[w][1].json.status = "error" ]_vars

\* C7 witness: an iterate has been refused because max_iters was reached, on
\* a run that has a manifest, a summary and constraints
C7_RefusedAtMaxIters ==
  \E w \in DOMAIN disk :
    /\ cmd.pc = "idle"
    /\ out[w] # Absent
    /\ Printed(w).inv.command = "csp:iterate"
    /\ Printed(w).json.status = "error"
    /\ Printed(w).json.error = "Max iterations reached"
    /\ disk[w][Printed(w).inv.run_id].manifest[1].iteration >= 1

\* C8 (as stated): after a successful iterate n the adjustments are the n-1
\* entries present before it followed by exactly one entry
\* {iteration: n, mode, action} of its decision; so there are n of them and
\* the last one is that entry.
C8_AdjustmentsAppendOnly ==
  \A w \in DOMAIN disk :
    SucceededAs(w, "csp:iterate") =>
      LET d == disk[w][Printed(w).inv.run_id]
          n == Printed(w).json.iteration
          adjustments == AdjustmentsOf(d.constraints[1])
      IN  /\ Len(adjustments) = n
          /\ \E f \in d.iterations :
               /\ f.iteration = n
               /\ adjustments[Len(adjustments)] =
                    [iteration |-> n, mode |-> f.decision.mode, action |-> f.decision.action]

\* the step ends an iterate of workspace w with success
IterateSucceeds(w) ==
  /\ cmd.pc = "iter_batch_validate"
  /\ cmd.inv.workspace = w
  /\ cmd'.pc = "idle"
  /\ out'[w][1].exitCode = 0

\* C9: a successful iterate raises the manifest's iteration by exactly 1,
\* prints that iteration, sets status ok and writes iteration_<n>.json for it
\* with iteration, decision, summary_hash, chosen_candidate_id, truth_score.
C9_IterateAdvancesByOne ==
  [][ \A w \in DOMAIN disk :
        IterateSucceeds(w) =>
          LET r == cmd.inv.run_id
              before == disk[w][r].manifest[1]
              after == disk'[w][r].manifest[1]
              json == out'[w][1].json
              files == {f \in disk'[w][r].iterations : f.iteration = after.iteration}
          IN  /\ after.iteration = before.iteration + 1
              /\ json.iteration = after.iteration
              /\ after.status = "ok"
              /\ Cardinality(files) = 1
              /\ \A f \in files :
                   /\ DOMAIN f = {"iteration", "decision", "summary_hash",
                                  "chosen_candidate_id", "truth_score"}
                   /\ f.decision = cmd.decision
                   /\ f.summary_hash = json.summary_hash
                   /\ f.chosen_candidate_id = json.chosen_candidate_id
                   /\ f.truth_score = json.truth_score ]_vars

\* C9 witness: a second iterate of a run has succeeded
C9_SecondIterateDone ==
  \E w \in DOMAIN disk :
    /\ SucceededAs(w, "csp:iterate")
    /\ Printed(w).json.iteration = 2
    /\ disk[w][Printed(w).inv.run_id].manifest[1].iteration = 2

\* C10 (as stated): top_candidates is sorted by truth_score descending and
\* entries with equal truth_score are in ascending candidate_id order,
\* whatever the order of the reports.
C10_TopCandidatesOrder ==
  \A w \in DOMAIN out :
    (cmd.pc = "idle" /\ out[w] # Absent) =>
      LET top == Printed(w).summary.top_candidates
      IN  \A i, j \in 1..Len(top) :
            i < j =>
              \/ top[i].truth_score > top[j].truth_score
              \/ /\ top[i].truth_score = top[j].truth_score
                 /\ top[i].candidate_id < top[j].candidate_id

\* C11 (as stated): for every non-empty list of reports, lists that repeat a
\* candidate_id included, best_candidate_id is the candidate_id of the first
\* entry of top_candidates.
C11_BestIsFirstOfTop ==
  \A w \in DOMAIN out :
    (cmd.pc = "idle" /\ out[w] # Absent /\ Printed(w).reports # <<>>) =>
      /\ Printed(w).summary.top_candidates # <<>>
      /\ Printed(w).summary.best_candidate_id =
           Printed(w).summary.top_candidates[1].candidate_id

(***************************************************************************)
(* The summaries the stub client gives to dry-run commands                 *)
(***************************************************************************)
MaxStubSeed == 32

\* the commands that reach batch_validate on a fresh stub client, by the
\* calls they make before it: validate none, iterate run_qlip, discover
\* fetch_priors and run_qlip, preceded by suggest_chemistries without
\* --chem-system
StubPaths == <<"validate", "iterate", "discover_chem", "discover">>

\* the summary batch_validate returns to the command `path' run with
\* --dry-run --seed seed (validate reads the five candidates of the run)
StubSummaryOn(seed, path) ==
  LET fresh == NewClient("stub", seed,
                         DEFAULT_CONFIG.policy.truth_accept_threshold)
  IN  Then(IF path = "discover" THEN StubSuggestChemistries(fresh.state).state
           ELSE fresh.state, LAMBDA suggested :
      Then(IF path \in {"discover", "discover_chem"}
           THEN StubFetchPriors(suggested).state ELSE suggested, LAMBDA fetched :
      Then(StubRunQlip(fetched), LAMBDA qlip :
        StubBatchValidate(IF path = "validate" THEN fresh.state ELSE qlip.state,
                          qlip.value.candidates,
                          fresh.truthThreshold).value.summary[1])))

InitStubPolicy ==
  /\ clock = 0
  /\ disk = [w \in {"W1"} |-> [r \in RunIds |-> NoRun]]
  /\ cmd = [pc |-> "dry_runs", seed |-> 1, path |-> 1, modes |-> {}]
  /\ toolClient = NewClient("stub", 1, DEFAULT_CONFIG.policy.truth_accept_threshold)
  /\ out = [w \in {"W1"} |-> Absent]

\* one dry-run command's batch_validate followed by decideIteration on its
\* summary; the modes decided so far are kept
DecideOnStubSummary ==
  /\ cmd.pc = "dry_runs"
  /\ cmd.seed <= MaxStubSeed
  /\ \E summary \in {StubSummaryOn(cmd.seed, StubPaths[cmd.path])} :
     \E decision \in {decideIteration(summary, DEFAULT_CONFIG.policy, 1)} :
       /\ cmd' = [cmd EXCEPT !.modes = @ \cup {decision.mode},
                             !.path = IF @ = Len(StubPaths) THEN 1 ELSE @ + 1,
                             !.seed = IF cmd.path = Len(StubPaths) THEN @ + 1 ELSE @]
       /\ out' = [out EXCEPT !["W1"] =
                    Some([ seed |-> cmd.seed, path |-> StubPaths[cmd.path],
                           summary |-> summary, decision |-> decision ])]
  /\ UNCHANGED <<disk, toolClient, clock>>

SpecStubPolicy == InitStubPolicy /\ [][DecideOnStubSummary]_vars

\* C12 (as stated): the summaries the stub produces for dry-run commands
\* exercise both branches of the policy: among the decisions taken on them
\* there is one with mode tighten as well as one with mode relax.
C12_StubReachesBothModes ==
  (cmd.pc = "dry_runs" /\ cmd.seed > MaxStubSeed) =>
    cmd.modes = {"relax", "tighten"}

(***************************************************************************)
(* decideIteration on its own                                              *)
(***************************************************************************)
MaxIteration == 6

\* the checks decideIteration reads, and the failure counts tried for them
PolicyChecks == { "min_distance", "density_in_range", "charge_neutrality_feasible",
                  "coordination_reasonable", "symmetry_match" }
FailureCounts == {0, 1, 5}

\* failure histograms; a check may have no key at all
Histograms == UNION { [keys -> FailureCounts] : keys \in SUBSET PolicyChecks }

\* the configured order lists, each either the default one or empty
Policies ==
  { [ relax_order |-> r, tighten_order |-> t ] :
      r \in {DEFAULT_CONFIG.policy.relax_order, <<>>},
      t \in {DEFAULT_CONFIG.policy.tighten_order, <<>>} }

InitDecide ==
  /\ clock = 0
  /\ disk = [w \in {"W1"} |-> [r \in RunIds |-> NoRun]]
  /\ \E histogram \in Histograms, policy \in Policies, iteration \in 0..MaxIteration :
       cmd = [ pc |-> "decide", summary |-> [failure_histogram |-> histogram],
               policy |-> policy, iteration |-> iteration ]
  /\ toolClient = NewClient("real", 1, DEFAULT_CONFIG.policy.truth_accept_threshold)
  /\ out = [w \in {"W1"} |-> Absent]

\* one call of decideIteration; its arguments and result are kept
Decide ==
  /\ cmd.pc = "decide"
  /\ out' = [out EXCEPT !["W1"] =
               Some([ summary |-> cmd.summary, policy |-> cmd.policy,
                      iteration |-> cmd.iteration,
                      decision |-> decideIteration(cmd.summary, cmd.policy,
                                                   cmd.iteration) ])]
  /\ cmd' = Idle
  /\ UNCHANGED <<disk, toolClient, clock>>

SpecDecide == InitDecide /\ [][Decide]_vars

\* the count of a check in a histogram, a missing key counting as 0
FailuresIn(histogram, name) ==
  IF name \in DOMAIN histogram THEN histogram[name] ELSE 0

\* R: failures of density_in_range, charge_neutrality_feasible, symmetry_match
RelaxFailuresIn(histogram) ==
  FailuresIn(histogram, "density_in_range")
  + FailuresIn(histogram, "charge_neutrality_feasible")
  + FailuresIn(histogram, "symmetry_match")

\* T: failures of min_distance, coordination_reasonable
TightenFailuresIn(histogram) ==
  FailuresIn(histogram, "min_distance")
  + FailuresIn(histogram, "coordination_reasonable")

\* C13: decideIteration returns mode relax when R >= T (a tie included) and
\* mode tighten when R < T, a missing histogram key counting as 0.
C13_ModeRelaxIffRAtLeastT ==
  \A w \in DOMAIN out :
    (cmd.pc = "idle" /\ out[w] # Absent) =>
      LET histogram == Printed(w).summary.failure_histogram
      IN  /\ Printed(w).decision.mode \in {"relax", "tighten"}
          /\ Printed(w).decision.mode = "relax"
               <=> RelaxFailuresIn(histogram) >= TightenFailuresIn(histogram)

\* a tie of non-zero counts, with a key missing, was decided as relax
C13_TieDecidedRelax ==
  \E w \in DOMAIN out :
    /\ cmd.pc = "idle" /\ out[w] # Absent
    /\ "symmetry_match" \notin DOMAIN Printed(w).summary.failure_histogram
    /\ RelaxFailuresIn(Printed(w).summary.failure_histogram) = 5
    /\ TightenFailuresIn(Printed(w).summary.failure_histogram) = 5
    /\ Printed(w).decision.mode = "relax"

\* C14: the action decideIteration returns is order[iteration mod len(order)]
\* (counting from 0), order being relax_order for mode relax and
\* tighten_order for mode tighten; with an empty order list it is
\* widen_lattice for relax and increase_min_distance_scale for tighten.
C14_ActionFromOrder ==
  \A w \in DOMAIN out :
    (cmd.pc = "idle" /\ out[w] # Absent) =>
      LET decision == Printed(w).decision
          order == IF decision.mode = "relax" THEN Printed(w).policy.relax_order
                   ELSE Printed(w).policy.tighten_order
      IN  IF order = <<>>
          THEN decision.action = IF decision.mode = "relax" THEN "widen_lattice"
                                 ELSE "increase_min_distance_scale"
          ELSE \E i \in 0..(Len(order) - 1) :
                 /\ \E q \in 0..Printed(w).iteration :
                      Printed(w).iteration = q * Len(order) + i
                 /\ decision.action = order[i + 1]

\* min_distance failed 5 times, nothing else failed, iteration 2: the
\* decision is tighten with the third entry of the default tighten_order
C14_SmokeTighten ==
  \E w \in DOMAIN out :
    /\ cmd.pc = "idle" /\ out[w] # Absent
    /\ Printed(w).summary.failure_histogram =
         [k \in PolicyChecks |-> IF k = "min_distance" THEN 5 ELSE 0]
    /\ Printed(w).iteration = 2
    /\ Printed(w).policy.tighten_order = DEFAULT_CONFIG.policy.tighten_order
    /\ Printed(w).decision = [mode |-> "tighten", action |-> "restrict_oxidation_states"]

\* the running validate of w ends with exit code 0 in this step
ValidateSucceeds(w) ==
  /\ cmd.pc = "val_batch_validate"
  /\ cmd.inv.workspace = w
  /\ cmd'.pc = "idle"
  /\ out'[w][1].exitCode = 0

\* the command before the running one in w was a successful dry-run
\* discover that created the run the running command is given, with the
\* same seed
AfterDryRunDiscoverOfRun(w) ==
  /\ out[w] # Absent
  /\ Printed(w).exitCode = 0
  /\ Printed(w).inv.command = "csp:discover"
  /\ Printed(w).inv.kind = "stub"
  /\ Printed(w).inv.run_id = cmd.inv.run_id
  /\ Printed(w).inv.seed = cmd.inv.seed

\* C15 (as stated): a dry-run validate run with the same seed on the run a
\* dry-run discover has just created writes a summary.json whose hash is
\* the summary_hash that discover printed.
C15_ValidateReproducesDiscoverHash ==
  [][ \A w \in DOMAIN disk :
        (ValidateSucceeds(w) /\ cmd.inv.kind = "stub" /\ AfterDryRunDiscoverOfRun(w)) =>
          /\ disk'[w][cmd.inv.run_id].summary # Absent
          /\ computeSummaryHash(disk'[w][cmd.inv.run_id].summary[1])
               = Printed(w).json.summary_hash ]_vars

\* the tool call a discover (resp. an iterate) is waiting for, by position
\* in the workflow
DiscoverCalls ==
  <<"suggest", "fetch_priors", "build_constraints", "run_qlip", "batch_validate">>
IterateCalls == <<"iter_run_qlip", "iter_batch_validate">>

\* call q comes right after call p in the list
Follows(calls, p, q) ==
  \E i \in 1..(Len(calls) - 1) : calls[i] = p /\ calls[i + 1] = q

\* C16: a discover calls suggest_chemistries, fetch_priors, build_constraints,
\* run_qlip, batch_validate in that order, leaving out suggest_chemistries
\* exactly when --chem-system is given; an iterate calls run_qlip then
\* batch_validate.  A call is made only when the one before it has
\* returned, and the command succeeds only after the last one.
C16_ToolCallsInOrder ==
  [][ /\ (cmd.pc = "idle" /\ cmd'.pc # "idle" /\ cmd'.inv.command = "csp:discover") =>
           cmd'.pc = IF cmd'.inv.chem_system = "" THEN "suggest" ELSE "fetch_priors"
      /\ (cmd.pc = "idle" /\ cmd'.pc # "idle" /\ cmd'.inv.command = "csp:iterate") =>
           cmd'.pc = "iter_run_qlip"
      /\ (cmd.pc # "idle" /\ cmd'.pc # "idle"
            /\ cmd.inv.command \in {"csp:discover", "csp:iterate"}) =>
           /\ cmd'.inv = cmd.inv
           /\ Follows(IF cmd.inv.command = "csp:discover" THEN DiscoverCalls
                      ELSE IterateCalls, cmd.pc, cmd'.pc)
      /\ (cmd.pc # "idle" /\ cmd'.pc = "idle"
            /\ cmd.inv.command \in {"csp:discover", "csp:iterate"}
            /\ out'[cmd.inv.workspace][1].exitCode = 0) =>
           cmd.pc = IF cmd.inv.command = "csp:discover" THEN "batch_validate"
                    ELSE "iter_batch_validate" ]_vars

\* C16 witness: a discover without --chem-system has made its five calls on
\* the stub and succeeded
C16_DiscoverMadeAllCalls ==
  \E w \in DOMAIN disk :
    /\ SucceededAs(w, "csp:discover")
    /\ Printed(w).inv.chem_system = ""
    /\ Printed(w).inv.kind = "stub"

\* the tool calls a successful discover has made, in order
CallsMadeBy(inv) ==
  IF inv.chem_system = "" THEN DiscoverCalls ELSE Tail(DiscoverCalls)

\* C17 (as stated): after a successful discover the run's event log holds a
\* run_manifest event, a run_started event and one event for the outcome of
\* every tool call the discover made, and every event carries an event name
\* and a timestamp.
C17_EventsCoverCallsWithTimestamps ==
  \A w \in DOMAIN disk :
    SucceededAs(w, "csp:discover") =>
      LET events == disk[w][Printed(w).inv.run_id].events
          named(name) == {i \in 1..Len(events) : events[i].event = name}
          others == {i \in 1..Len(events) :
                       events[i].event \notin {"run_manifest", "run_started"}}
      IN  /\ named("run_manifest") # {}
          /\ named("run_started") # {}
          /\ Cardinality(others) >= Len(CallsMadeBy(Printed(w).inv))
          /\ \A i \in 1..Len(events) :
               {"event", "timestamp"} \subseteq DOMAIN events[i]

\* s is an initial part of t
IsPrefix(s, t) == Len(s) <= Len(t) /\ SubSeq(t, 1, Len(s)) = s

\* the running discover of w ends with exit code 0 in this step
DiscoverSucceeds(w) ==
  /\ cmd.pc = "batch_validate"
  /\ cmd.inv.workspace = w
  /\ cmd'.pc = "idle"
  /\ out'[w][1].exitCode = 0

\* C18: the event log of a run only grows at its end: the events it held
\* before a step are an unchanged initial part of it after the step.  The
\* events a successful discover leaves at the end of the log are, in order,
\* run_manifest (running), run_started, run_manifest (ok).
C18_EventsAppendOnly ==
  [][ \A w \in DOMAIN disk :
        /\ \A r \in DOMAIN disk[w] :
             IsPrefix(disk[w][r].events, disk'[w][r].events)
        /\ DiscoverSucceeds(w) =>
             LET events == disk'[w][cmd.inv.run_id].events
                 n == Len(events)
             IN  /\ n >= 3
                 /\ events[n - 2].event = "run_manifest"
                 /\ events[n - 2].status = "running"
                 /\ events[n - 1].event = "run_started"
                 /\ events[n].event = "run_manifest"
                 /\ events[n].status = "ok"
                 /\ Len(disk[w][cmd.inv.run_id].events) = n - 1 ]_vars

\* C18 witness: a second discover of the same run has succeeded, its three
\* events following the three of the first
C18_SecondDiscoverAppended ==
  \E w \in DOMAIN disk :
    /\ SucceededAs(w, "csp:discover")
    /\ Len(disk[w][Printed(w).inv.run_id].events) = 6

\* the invocation that starts in this step in w: the one now running, or
\* the one whose result has just been printed
StartedIn(w) == IF cmd'.pc = "idle" THEN out'[w][1].inv ELSE cmd'.inv

\* C19 (as stated): an iterate, validate or export given a run_id that has
\* no run directory in the workspace fails with exit code 1 and leaves the
\* workspace as it was, creating no directory and no file.
C19_MissingRunRejectedUnchanged ==
  [][ \A w \in DOMAIN disk :
        ( /\ cmd.pc = "idle"
          /\ clock' = clock + 1
          /\ StartedIn(w).workspace = w
          /\ StartedIn(w).command \in {"csp:iterate", "csp:validate", "csp:export"}
          /\ disk[w][StartedIn(w).run_id] = NoRun ) =>
            /\ cmd'.pc = "idle"
            /\ out'[w][1].exitCode = 1
            /\ disk' = disk ]_vars

\* the command a step belongs to: the running one, or the one that starts
\* and ends within the step
CommandOfStep(w) ==
  IF cmd.pc # "idle" THEN cmd.inv.command ELSE StartedIn(w).command

\* C20: run_manifest.json changes only in steps of discover and iterate:
\* steps of validate and export leave every manifest as it was, and no step
\* removes a manifest.
C20_ManifestFrame ==
  [][ \A w \in DOMAIN disk : \A r \in DOMAIN disk[w] :
        /\ disk[w][r].manifest # Absent => disk'[w][r].manifest # Absent
        /\ disk'[w][r].manifest # disk[w][r].manifest =>
             CommandOfStep(w) \in {"csp:discover", "csp:iterate"}
        /\ CommandOfStep(w) \in {"csp:validate", "csp:export"} =>
             disk'[w][r].manifest = disk[w][r].manifest ]_vars

\* C20 witness: an export has succeeded on a run whose manifest a discover
\* wrote and whose summary a validate has since rewritten (the summary's
\* best score is no longer the manifest's)
C20_ValidatedAndExported ==
  \E w \in DOMAIN disk :
    /\ SucceededAs(w, "csp:export")
    /\ Printed(w).json.exports # <<>>
    /\ LET d == disk[w][Printed(w).inv.run_id]
       IN  /\ d.manifest # Absent
           /\ d.manifest[1].status = "ok"
           /\ d.manifest[1].iteration = 0
           /\ d.summary # Absent
           /\ d.manifest[1].truth_score[1]
                # ObjGet(d.summary[1].truth_scores, d.summary[1].best_candidate_id)

\* an export of w starts and ends with exit code 0 in this step
ExportSucceeds(w) ==
  /\ cmd.pc = "idle"
  /\ cmd'.pc = "idle"
  /\ clock' = clock + 1
  /\ out'[w][1].inv.command = "csp:export"
  /\ out'[w][1].inv.workspace = w
  /\ out'[w][1].exitCode = 0

\* the names <candidate_id>.<extension> of a set of export files
ExportNames(files) == {<<f.candidate_id, f.extension>> : f \in files}

\* C21: a successful export with top_k = K >= 1 returns min(K, n) exports,
\* n being the number of top_candidates of the run's summary (of the
\* candidate files, ascending, when there is no summary); the i-th export
\* is the i-th of them, and exactly the files <candidate_id>.<format> of
\* the returned exports are written under exports/, the other files there
\* staying as they were.
C21_ExportsFirstKOfTop ==
  [][ \A w \in DOMAIN disk :
        ExportSucceeds(w) =>
          LET json == out'[w][1].json
              d == disk[w][json.run_id]
              after == disk'[w][json.run_id]
              order == IF d.summary # Absent
                       THEN [i \in 1..Len(d.summary[1].top_candidates) |->
                               d.summary[1].top_candidates[i].candidate_id]
                       ELSE listCandidateIds(d)
              n == IF json.top_k < Len(order) THEN json.top_k ELSE Len(order)
              written == {<<order[i], json.format>> : i \in 1..n}
          IN  /\ Len(json.exports) = n
              /\ \A i \in 1..n : json.exports[i].candidate_id = order[i]
              /\ Cardinality(written) = n
              /\ ExportNames(after.exports) = ExportNames(d.exports) \cup written
              /\ Cardinality(after.exports) = Cardinality(ExportNames(after.exports))
              /\ \A f \in d.exports :
                   <<f.candidate_id, f.extension>> \notin written => f \in after.exports
              /\ "exports" \in after.dirs ]_vars

\* C21 witness: --format poscar --top-k 3 on a discovered run has written
\* three .poscar files, those of the first three top_candidates
C21_ThreePoscarExported ==
  \E w \in DOMAIN disk :
    /\ SucceededAs(w, "csp:export")
    /\ Printed(w).json.format = "poscar"
    /\ Printed(w).json.top_k = 3
    /\ Len(Printed(w).json.exports) = 3
    /\ LET d == disk[w][Printed(w).json.run_id]
       IN  /\ d.summary # Absent
           /\ Len(d.summary[1].top_candidates) = 5
           /\ {f.candidate_id : f \in {g \in d.exports : g.extension = "poscar"}}
                = {d.summary[1].top_candidates[i].candidate_id : i \in 1..3}

(***************************************************************************)
(* Discovers run with --solver and with a config file                      *)
(***************************************************************************)
\* type QlipSolver
QlipSolvers == {"gurobi", "cbc", "highs"}

\* values of --solver: not given, a solver of the type, another string
SolverFlags == {"", "cbc", "simplex"}

\* the config file: unreadable, or JSON that sets the solver
SolverFiles ==
  { Absent,
    Some([qlip |-> [solver |-> "highs"]]),
    Some([qlip |-> [solver |-> "glpk"]]) }

\* a discover in a fresh workspace, with or without --dry-run, its steps up
\* to the printed result
NextConfig ==
  \/ \E w \in DOMAIN disk, seed \in Seeds, objective \in Objectives,
        chem \in ChemFlags, loaded \in SolverFiles, solver \in SolverFlags,
        maxIters \in MaxItersFlags, kind \in CliClients :
       Fresh(w) /\ DiscoverStartWith(w, seed, objective, chem, loaded, solver,
                                     maxIters, kind)
  \/ DiscoverSuggest
  \/ DiscoverFetchPriors
  \/ DiscoverBuildConstraints
  \/ DiscoverRunQlip
  \/ DiscoverValidate

SpecConfig == Init /\ [][NextConfig]_vars

\* C22 (as stated): a command whose resolved solver, from --solver or from
\* the config file, is not one of gurobi, cbc, highs ends at once with
\* status error and exit code 1 and writes nothing.
C22_UnknownSolverRejected ==
  [][ \A w \in DOMAIN disk :
        ( /\ cmd.pc = "idle"
          /\ clock' = clock + 1
          /\ StartedIn(w).workspace = w
          /\ StartedIn(w).config.qlip.solver \notin QlipSolvers ) =>
            /\ cmd'.pc = "idle"
            /\ out'[w][1].exitCode = 1
            /\ out'[w][1].json.status = "error"
            /\ disk' = disk ]_vars

(***************************************************************************)
(* The commands, invocations without their required flag included          *)
(***************************************************************************)
CspCommands == {"csp:discover", "csp:iterate", "csp:validate", "csp:export"}

\* runCspCli given a command without its required flag (--objective for
\* discover, --run-id for the others): the config is resolved and the tool
\* client built, then writeError and exit code 1
MissingRequiredFlag(w, command, seed, kind) ==
  /\ cmd.pc = "idle"
  /\ clock < MaxCmds
  /\ clock' = clock + 1
  /\ LET config == resolveConfig(Absent, w, "", Absent)
         inv == Invocation(command, w, seed, <<>>, "", config, kind, Absent)
     IN  /\ toolClient' = NewClient(kind, seed, config.policy.truth_accept_threshold)
         /\ CliReject(inv, IF command = "csp:discover"
                           THEN "Missing required --objective"
                           ELSE "Missing required --run-id")

NextCli ==
  \/ Next
  \/ \E w \in DOMAIN disk, command \in CspCommands, seed \in Seeds,
        kind \in CliClients :
       MissingRequiredFlag(w, command, seed, kind)

SpecCli == Init /\ [][NextCli]_vars

\* the step ends an invocation in w: a running one, or one that starts and
\* ends at once
EndsInvocation(w) ==
  /\ cmd'.pc = "idle"
  /\ \/ cmd.pc # "idle" /\ cmd.inv.workspace = w
     \/ cmd.pc = "idle" /\ clock' = clock + 1 /\ out'[w] # Absent
          /\ out'[w][1].inv.workspace = w

\* C23: stdout gets its line exactly when an invocation ends, one line per
\* invocation.  A failed invocation (missing required flag, error thrown by
\* the workflow) prints status error with an error message and exits with
\* code 1; a successful one prints status ok and exits with code 0.
C23_OneJsonLinePerInvocation ==
  [][ \A w \in DOMAIN disk :
        IF EndsInvocation(w)
        THEN /\ Len(out'[w]) = 1
             /\ out'[w][1].json.command = out'[w][1].inv.command
             /\ out'[w][1].json.command \in CspCommands
             /\ \/ /\ out'[w][1].json.status = "ok"
                   /\ out'[w][1].exitCode = 0
                   /\ "error" \notin DOMAIN out'[w][1].json
                \/ /\ out'[w][1].json.status = "error"
                   /\ out'[w][1].exitCode = 1
                   /\ "error" \in DOMAIN out'[w][1].json
                   /\ out'[w][1].json.error # ""
        ELSE out'[w] = out[w] ]_vars

\* C23 witness: the workspace has seen an invocation fail for a missing
\* flag after a failing tool call had left the run with status running
C23_MissingFlagPrinted ==
  \E w \in DOMAIN disk :
    /\ cmd.pc = "idle" /\ out[w] # Absent
    /\ Printed(w).json.status = "error"
    /\ Printed(w).json.error = "Missing required --run-id"
    /\ Printed(w).exitCode = 1
    /\ \E r \in RunsOf(w) : disk[w][r].manifest[1].status = "running"

\* C24: the client a command makes its tool calls on is the StubToolClient
\* exactly when the command was given --dry-run (inv.kind = "stub"),
\* whatever solver, max_iters or config file it was given; a command without
\* --dry-run calls the RealMcpClient, which the CLI builds without a
\* handler, so its first call throws.
C24_DryRunForcesStub ==
  [][ cmd.pc # "idle" =>
        /\ toolClient.kind = "stub" <=> cmd.inv.kind = "stub"
        /\ cmd.inv.kind # "stub" =>
             /\ toolClient.kind = "real"
             /\ cmd'.pc = "idle"
             /\ out'[cmd.inv.workspace][1].json.status = "error"
        /\ cmd'.pc # "idle" => toolClient'.kind = toolClient.kind ]_vars

\* C24 witness: a dry-run discover whose config names another solver, taken
\* from the config file, has made all its calls on the stub
C24_StubUsedDespiteConfig ==
  \E w \in DOMAIN disk :
    /\ SucceededAs(w, "csp:discover")
    /\ Printed(w).inv.kind = "stub"
    /\ Printed(w).inv.config.qlip.solver = "highs"
    /\ toolClient.kind = "stub"
    /\ toolClient.state # NewClient("stub", Printed(w).inv.seed, 8000).state

\* C25: summarizeValidation gives total = number of reports, accepted =
\* number of reports with truth_score >= the threshold, rejected = total -
\* accepted, so total = accepted + rejected.
C25_TotalAcceptedRejected ==
  \A w \in DOMAIN out :
    (cmd.pc = "idle" /\ out[w] # Absent) =>
      LET reports == Printed(w).reports
          summary == Printed(w).summary
          acceptedReports == {i \in 1..Len(reports) :
                                reports[i].truth_score >= Printed(w).truthAcceptThreshold}
      IN  /\ summary.total = Len(reports)
          /\ summary.accepted = Cardinality(acceptedReports)
          /\ summary.rejected = summary.total - summary.accepted
          /\ summary.total = summary.accepted + summary.rejected

\* C25 witness: three reports, one below the threshold, one exactly at it
\* (accepted) and a third repeating a candidate_id
C25_MixedReportsSummarized ==
  \E w \in DOMAIN out :
    /\ cmd.pc = "idle" /\ out[w] # Absent
    /\ Printed(w).truthAcceptThreshold = 8000
    /\ Len(Printed(w).reports) = 3
    /\ Printed(w).reports[1].truth_score = 5000
    /\ Printed(w).reports[2].truth_score = 8000
    /\ Printed(w).reports[3].candidate_id = Printed(w).reports[1].candidate_id
    /\ Printed(w).summary.accepted \in {1, 2}
    /\ Printed(w).summary.rejected >= 1

\* C26: failure_histogram has exactly the six check names as keys, and the
\* value of each is the number of checks of that name with passed = false
\* over all reports (0 when none failed).
C26_HistogramCountsFailedChecks ==
  \A w \in DOMAIN out :
    (cmd.pc = "idle" /\ out[w] # Absent) =>
      LET reports == Printed(w).reports
          histogram == Printed(w).summary.failure_histogram
          failedChecks(name) ==
            {<<i, j>> \in (1..Len(reports)) \X (1..6) :
               /\ j <= Len(reports[i].checks)
               /\ reports[i].checks[j].name = name
               /\ ~reports[i].checks[j].passed}
      IN  /\ DOMAIN histogram = {"parseable", "min_distance", "density_in_range",
                                 "charge_neutrality_feasible",
                                 "coordination_reasonable", "symmetry_match"}
          /\ \A name \in DOMAIN histogram :
               histogram[name] = Cardinality(failedChecks(name))

\* C26 witness: two reports failed symmetry_match and none failed
\* min_distance
C26_SomeFailedSomeZero ==
  \E w \in DOMAIN out :
    /\ cmd.pc = "idle" /\ out[w] # Absent
    /\ Printed(w).summary.failure_histogram["symmetry_match"] = 2
    /\ Printed(w).summary.failure_histogram["min_distance"] = 0
    /\ Len(Printed(w).reports) = 3

\* C27: in dry-run with the default config (truth_accept_threshold 0.8), the
\* summary of every discover and every iterate, for every seed, has
\* accepted >= 1, cand_0001 being accepted.
C27_DryRunAcceptsFirstCandidate ==
  (out["W1"] # Absent /\ out["W1"][1].path \in {"discover", "discover_chem", "iterate"}) =>
    LET summary == out["W1"][1].summary
    IN  /\ summary.accepted >= 1
        /\ ObjGet(summary.truth_scores, 1) >=
             DEFAULT_CONFIG.policy.truth_accept_threshold

\* C27 witness: the last seed's iterate, with cand_0001 the only accepted
\* candidate of five
C27_LastSeedIterateSummarized ==
  /\ out["W1"] # Absent
  /\ out["W1"][1].path = "iterate"
  /\ out["W1"][1].seed = MaxStubSeed
  /\ out["W1"][1].summary.total = 5
  /\ out["W1"][1].summary.accepted = 1
  /\ out["W1"][1].summary.rejected = 4

\* C28: each stub run_qlip call returns exactly the five ids cand_0001 ..
\* cand_0005 in that order, and after any sequence of dry-run discover and
\* iterate commands a run's candidates/ holds exactly the five files
\* cand_0001.cif .. cand_0005.cif.
C28_FiveCandidates ==
  [][ /\ ( /\ cmd.pc \in {"run_qlip", "iter_run_qlip"}
           /\ toolClient.kind = "stub"
           /\ cmd'.pc \in {"batch_validate", "iter_batch_validate"} ) =>
          CandidateIds(cmd'.candidates) = <<1, 2, 3, 4, 5>>
      /\ \A w \in DOMAIN disk :
           ( /\ cmd.pc \in {"batch_validate", "iter_batch_validate"}
             /\ cmd.inv.workspace = w
             /\ cmd'.pc = "idle"
             /\ out'[w][1].exitCode = 0 ) =>
             {f.candidate_id : f \in disk'[w][cmd.inv.run_id].candidates} = 1..5
      /\ \A w \in DOMAIN disk : \A r \in DOMAIN disk[w] :
           disk'[w][r].candidates # {} =>
             {f.candidate_id : f \in disk'[w][r].candidates} = 1..5 ]_vars

\* C28 witness: a dry-run iterate has succeeded on a run whose manifest is
\* past iteration 0, and the run holds five candidate files
C28_IteratedRunHoldsFive ==
  \E w \in DOMAIN out :
    /\ cmd.pc = "idle" /\ out[w] # Absent
    /\ Printed(w).inv.command = "csp:iterate"
    /\ Printed(w).inv.kind = "stub"
    /\ Printed(w).exitCode = 0
    /\ Printed(w).json.candidate_ids = <<1, 2, 3, 4, 5>>
    /\ Cardinality(disk[w][Printed(w).inv.run_id].candidates) = 5
    /\ disk[w][Printed(w).inv.run_id].manifest[1].iteration >= 1

(***************************************************************************)
(* stableStringify on JSON values                                          *)
(*                                                                         *)
(* A JSON value is a pair <<tag, payload>>: <<"null", 0>>, <<"bool", b>>,  *)
(* <<"num", n>> (an integer), <<"str", chars>>, <<"arr", items>> and       *)
(* <<"obj", entries>>, the entries being <<key, value>> pairs in the order *)
(* Object.keys lists them.  Strings and texts are sequences of UTF-16      *)
(* code units.                                                             *)
(***************************************************************************)
MaxJsonDepth == 2

JsonNull == <<"null", 0>>

\* the scalars tried: null, true, -10 and the string a"
JsonScalars == {JsonNull, <<"bool", TRUE>>, <<"num", -10>>, <<"str", <<97, 34>>>>}

\* the keys tried: "b", "a", "10" and "9"
JsonKeys == {<<98>>, <<97>>, <<49, 48>>, <<57>>}

\* a key that is a canonical array index: decimal digits without a leading 0
IsArrayIndex(key) ==
  /\ key # <<>>
  /\ \A i \in 1..Len(key) : key[i] \in 48..57
  /\ (Len(key) > 1 => key[1] # 48)

RECURSIVE KeyNumber(_)
KeyNumber(key) ==
  IF key = <<>> THEN 0
  ELSE 10 * KeyNumber(SubSeq(key, 1, Len(key) - 1)) + (key[Len(key)] - 48)

RECURSIVE IndexEntriesAscending(_, _)
IndexEntriesAscending(entries, indices) ==
  IF indices = {} THEN <<>>
  ELSE LET m == CHOOSE i \in indices :
                  \A j \in indices : KeyNumber(entries[i][1]) <= KeyNumber(entries[j][1])
       IN  <<entries[m]>> \o IndexEntriesAscending(entries, indices \ {m})

\* the own-property order of a JavaScript object: array-index keys in
\* ascending numeric order, then the other keys in creation order
OwnPropertyOrder(entries) ==
  IndexEntriesAscending(entries, {i \in 1..Len(entries) : IsArrayIndex(entries[i][1])})
    \o SelectSeq(entries, LAMBDA e : ~IsArrayIndex(e[1]))

\* the object created by defining the entries in turn
JsObject(entries) == <<"obj", OwnPropertyOrder(entries)>>

\* the comparison of Array.prototype.sort() without a comparator: by code units
RECURSIVE LexLess(_, _)
LexLess(a, b) ==
  IF b = <<>> THEN FALSE
  ELSE IF a = <<>> THEN TRUE
  ELSE IF Head(a) # Head(b) THEN Head(a) < Head(b)
  ELSE LexLess(Tail(a), Tail(b))

\* Object.keys(record).sort()
RECURSIVE SortedKeys(_)
SortedKeys(keys) ==
  IF keys = {} THEN <<>>
  ELSE LET m == CHOOSE k \in keys : \A other \in keys : k = other \/ LexLess(k, other)
       IN  <<m>> \o SortedKeys(keys \ {m})

\* record[key]
JsonGet(entries, key) ==
  entries[CHOOSE i \in 1..Len(entries) : entries[i][1] = key][2]

\* JSON.stringify of a string: quoted, with " and \ escaped by a backslash
RECURSIVE JsonEscape(_)
JsonEscape(chars) ==
  IF chars = <<>> THEN <<>>
  ELSE (IF Head(chars) \in {34, 92} THEN <<92, Head(chars)>> ELSE <<Head(chars)>>)
         \o JsonEscape(Tail(chars))

\* JSON.stringify of a string escaping the escaped text once more
JsonStringTextEscapedTwice(chars) == <<34>> \o JsonEscape(JsonEscape(chars)) \o <<34>>

JsonStringText(chars) == <<34>> \o JsonEscape(chars) \o <<34>>

RECURSIVE JsonDigits(_)
JsonDigits(n) ==
  IF n < 10 THEN <<48 + n>> ELSE JsonDigits(n \div 10) \o <<48 + (n % 10)>>

\* JSON.stringify of an integer
JsonNumberText(n) == IF n < 0 THEN <<45>> \o JsonDigits(-n) ELSE JsonDigits(n)

\* JSON.stringify of null, a boolean, a number or a string
JsonScalarText(value) ==
  CASE value[1] = "null" -> <<110, 117, 108, 108>>
    [] value[1] = "bool" -> IF value[2] THEN <<116, 114, 117, 101>>
                            ELSE <<102, 97, 108, 115, 101>>
    [] value[1] = "num" -> JsonNumberText(value[2])
    [] OTHER -> JsonStringText(value[2])

\* texts.join(',')
RECURSIVE JoinComma(_)
JoinComma(texts) ==
  IF texts = <<>> THEN <<>>
  ELSE IF Len(texts) = 1 THEN texts[1]
  ELSE texts[1] \o <<44>> \o JoinComma(Tail(texts))

\* utils.ts stableStringify on a JSON value
RECURSIVE StableStringifyJson(_)
StableStringifyJson(value) ==
  IF value[1] = "null" THEN JsonScalarText(value)
  ELSE IF value[1] = "arr"
  THEN <<91>> \o JoinComma([i \in 1..Len(value[2]) |-> StableStringifyJson(value[2][i])])
         \o <<93>>
  ELSE IF value[1] = "obj"
  THEN LET record == value[2]
           keys == SortedKeys({record[i][1] : i \in 1..Len(record)})
           entries == [i \in 1..Len(keys) |->
                         JsonStringText(keys[i]) \o <<58>>
                           \o StableStringifyJson(JsonGet(record, keys[i]))]
       IN  <<123>> \o JoinComma(entries) \o <<125>>
  ELSE JsonScalarText(value)

\* JSON.parse: the result of reading a value at a position of the text is
\* [ok, value, pos], pos being the position after the value; the texts read
\* here hold no white space
JsonFailed == [ok |-> FALSE, value |-> JsonNull, pos |-> 0]

JsonRead(value, pos) == [ok |-> TRUE, value |-> value, pos |-> pos]

JsonCharAt(text, pos) == IF pos <= Len(text) THEN text[pos] ELSE 0

\* the text holds the word at pos
JsonHasWord(text, pos, word) ==
  /\ pos + Len(word) - 1 <= Len(text)
  /\ SubSeq(text, pos, pos + Len(word) - 1) = word

\* the characters of a string up to its closing quote, unescaped
RECURSIVE JsonParseString(_, _, _)
JsonParseString(text, pos, chars) ==
  IF pos > Len(text) THEN JsonFailed
  ELSE IF text[pos] = 34 THEN JsonRead(<<"str", chars>>, pos + 1)
  ELSE IF text[pos] = 92
  THEN IF JsonCharAt(text, pos + 1) \in {34, 92}
       THEN JsonParseString(text, pos + 2, Append(chars, text[pos + 1]))
       ELSE JsonFailed
  ELSE JsonParseString(text, pos + 1, Append(chars, text[pos]))

RECURSIVE JsonParseDigits(_, _, _)
JsonParseDigits(text, pos, n) ==
  IF JsonCharAt(text, pos) \in 48..57
  THEN JsonParseDigits(text, pos + 1, 10 * n + (text[pos] - 48))
  ELSE [n |-> n, pos |-> pos]

JsonParseNumber(text, pos) ==
  LET negative == JsonCharAt(text, pos) = 45
      first == IF negative THEN pos + 1 ELSE pos
  IN  IF JsonCharAt(text, first) \notin 48..57 THEN JsonFailed
      ELSE Then(JsonParseDigits(text, first, 0), LAMBDA d :
             JsonRead(<<"num", IF negative THEN 0 - d.n ELSE d.n>>, d.pos))

\* defining a property: a key already there keeps its place
JsonSetEntry(entries, key, value) ==
  IF \E i \in 1..Len(entries) : entries[i][1] = key
  THEN [i \in 1..Len(entries) |->
          IF entries[i][1] = key THEN <<key, value>> ELSE entries[i]]
  ELSE Append(entries, <<key, value>>)

RECURSIVE JsonParseValue(_, _)
RECURSIVE JsonParseItems(_, _, _)
RECURSIVE JsonParseEntries(_, _, _)

JsonParseValue(text, pos) ==
  LET c == JsonCharAt(text, pos)
  IN  CASE c = 34 -> JsonParseString(text, pos + 1, <<>>)
        [] c = 91 -> IF JsonCharAt(text, pos + 1) = 93
                     THEN JsonRead(<<"arr", <<>>>>, pos + 2)
                     ELSE JsonParseItems(text, pos + 1, <<>>)
        [] c = 123 -> IF JsonCharAt(text, pos + 1) = 125
                      THEN JsonRead(JsObject(<<>>), pos + 2)
                      ELSE JsonParseEntries(text, pos + 1, <<>>)
        [] c = 110 -> IF JsonHasWord(text, pos, <<110, 117, 108, 108>>)
                      THEN JsonRead(JsonNull, pos + 4) ELSE JsonFailed
        [] c = 116 -> IF JsonHasWord(text, pos, <<116, 114, 117, 101>>)
                      THEN JsonRead(<<"bool", TRUE>>, pos + 4) ELSE JsonFailed
        [] c = 102 -> IF JsonHasWord(text, pos, <<102, 97, 108, 115, 101>>)
                      THEN JsonRead(<<"bool", FALSE>>, pos + 5) ELSE JsonFailed
        [] c = 45 \/ c \in 48..57 -> JsonParseNumber(text, pos)
        [] OTHER -> JsonFailed

\* the items of an array, from the one at pos
JsonParseItems(text, pos, items) ==
  Then(JsonParseValue(text, pos), LAMBDA item :
    IF ~item.ok THEN JsonFailed
    ELSE IF JsonCharAt(text, item.pos) = 44
    THEN JsonParseItems(text, item.pos + 1, Append(items, item.value))
    ELSE IF JsonCharAt(text, item.pos) = 93
    THEN JsonRead(<<"arr", Append(items, item.value)>>, item.pos + 1)
    ELSE JsonFailed)

\* the entries of an object, from the one at pos
JsonParseEntries(text, pos, entries) ==
  IF JsonCharAt(text, pos) # 34 THEN JsonFailed
  ELSE Then(JsonParseString(text, pos + 1, <<>>), LAMBDA key :
    IF ~key.ok \/ JsonCharAt(text, key.pos) # 58 THEN JsonFailed
    ELSE Then(JsonParseValue(text, key.pos + 1), LAMBDA entry :
      IF ~entry.ok THEN JsonFailed
      ELSE IF JsonCharAt(text, entry.pos) = 44
      THEN JsonParseEntries(text, entry.pos + 1,
                            JsonSetEntry(entries, key.value[2], entry.value))
      ELSE IF JsonCharAt(text, entry.pos) = 125
      THEN JsonRead(JsObject(JsonSetEntry(entries, key.value[2], entry.value)),
                    entry.pos + 1)
      ELSE JsonFailed))

\* JSON.parse(text): the value, or a SyntaxError
JsonParse(text) ==
  Then(JsonParseValue(text, 1), LAMBDA r :
    IF r.ok /\ r.pos = Len(text) + 1 THEN [threw |-> FALSE, value |-> r.value]
    ELSE [threw |-> TRUE, value |-> JsonNull])

\* arrays and objects of up to two of the given values
JsonArraysOf(values) ==
  {<<"arr", <<>>>>} \cup {<<"arr", <<a>>>> : a \in values}
    \cup {<<"arr", <<a, b>>>> : a \in values, b \in values}

JsonObjectsOf(values) ==
  {JsObject(<<>>)}
    \cup {JsObject(<< <<k, a>> >>) : k \in JsonKeys, a \in values}
    \cup {JsObject(<< <<k[1], a>>, <<k[2], b>> >>) :
            k \in {p \in JsonKeys \X JsonKeys : p[1] # p[2]}, a \in values, b \in values}

\* the values stableStringify is given first: scalars, and arrays and
\* objects of scalars
JsonFlatValues == JsonScalars \cup JsonArraysOf(JsonScalars) \cup JsonObjectsOf(JsonScalars)

InitCanonical ==
  /\ clock = 0
  /\ disk = [w \in {"W1"} |-> [r \in RunIds |-> NoRun]]
  /\ \E x \in JsonFlatValues : cmd = [pc |-> "canonical", x |-> x, depth |-> 1]
  /\ toolClient = NewClient("real", 1, 8000)
  /\ out = [w \in {"W1"} |-> Absent]

\* the value becomes an item of an array or a property of an object
NestJson ==
  /\ cmd.pc = "canonical"
  /\ cmd.depth < MaxJsonDepth
  /\ \E wrapped \in JsonArraysOf({cmd.x}) \cup JsonObjectsOf({cmd.x})
                      \cup {<<"arr", <<s, cmd.x>>>> : s \in JsonScalars}
                      \cup {JsObject(<< <<k[1], cmd.x>>, <<k[2], s>> >>) :
                              k \in {p \in JsonKeys \X JsonKeys : p[1] # p[2]},
                              s \in JsonScalars} :
       cmd' = [cmd EXCEPT !.x = wrapped, !.depth = @ + 1]
  /\ out' = [out EXCEPT !["W1"] = Absent]
  /\ UNCHANGED <<disk, toolClient, clock>>

\* stableStringify(x), JSON.parse of the text, stableStringify of the result
Canonicalize ==
  /\ cmd.pc = "canonical"
  /\ out["W1"] = Absent
  /\ \E text \in {StableStringifyJson(cmd.x)} :
     \E parsed \in {JsonParse(text)} :
       out' = [out EXCEPT !["W1"] =
                 Some([ x |-> cmd.x, text |-> text, parsed |-> parsed,
                        again |-> IF parsed.threw THEN <<>>
                                  ELSE StableStringifyJson(parsed.value) ])]
  /\ UNCHANGED <<disk, cmd, toolClient, clock>>

NextCanonical == NestJson \/ Canonicalize

SpecCanonical == InitCanonical /\ [][NextCanonical]_vars

\* C29: canonical serialization is idempotent: for every JSON value x,
\* JSON.parse reads stableStringify(x) and stableStringify of the value read
\* is the same text.
C29_CanonicalIdempotent ==
  out["W1"] # Absent =>
    /\ ~out["W1"][1].parsed.threw
    /\ out["W1"][1].again = out["W1"][1].text

\* C29 witness: an object with the keys b then a, its b an object with
\* array-index keys, has been serialized; the value read back lists the keys
\* in another order than x
C29_NestedUnsortedSerialized ==
  /\ out["W1"] # Absent
  /\ out["W1"][1].x[1] = "obj"
  /\ Len(out["W1"][1].x[2]) = 2
  /\ out["W1"][1].x[2][1][1] = <<98>>
  /\ out["W1"][1].x[2][2][1] = <<97>>
  /\ out["W1"][1].x[2][1][2] = JsObject(<< <<<<57>>, <<"str", <<97, 34>>>>>>,
                                         <<<<49, 48>>, <<"num", -10>>>> >>)
  /\ ~out["W1"][1].parsed.threw
  /\ out["W1"][1].parsed.value # out["W1"][1].x
  /\ Len(out["W1"][1].text) > 20

(***************************************************************************)
(* resolveConfig on its own                                                *)
(***************************************************************************)
\* the parts a config file may hold (<<>>: the key is not in the file)
FileWorkspaceParts == {<<>>, [workspace_dir |-> "file_dir"]}

FileQlipParts ==
  { <<>>,
    [qlip |-> [solver |-> "highs"]],
    [qlip |-> [max_atoms |-> 60]],
    [qlip |-> [solver |-> "highs", max_atoms |-> 60]] }

FilePolicyParts ==
  { <<>>,
    [policy |-> [max_iters |-> 9]],
    [policy |-> [relax_order |-> <<"relax_symmetry">>]],
    [policy |-> [max_iters |-> 9, relax_order |-> <<"relax_symmetry">>,
                 tighten_order |-> <<>>]] }

\* what loadConfigFile returns: null, or the object parsed from the file
LoadedFiles ==
  {Absent} \cup { Some(ws @@ q @@ p) :
                    ws \in FileWorkspaceParts, q \in FileQlipParts, p \in FilePolicyParts }

\* values of --workspace ("" is no flag)
WorkspaceFlags == {"", "flag_dir"}

InitResolve ==
  /\ clock = 0
  /\ disk = [w \in {"W1"} |-> [r \in RunIds |-> NoRun]]
  /\ \E loaded \in LoadedFiles, workspace_dir \in WorkspaceFlags,
        solver \in SolverFlags, max_iters \in MaxItersFlags :
       cmd = [ pc |-> "resolve", loaded |-> loaded, workspace_dir |-> workspace_dir,
               solver |-> solver, max_iters |-> max_iters ]
  /\ toolClient = NewClient("real", 1, 8000)
  /\ out = [w \in {"W1"} |-> Absent]

\* const config = await resolveConfig({configPath, workspaceDir, solver, maxIters})
ResolveConfig ==
  /\ cmd.pc = "resolve"
  /\ out' = [out EXCEPT !["W1"] =
               Some([ loaded |-> cmd.loaded, workspace_dir |-> cmd.workspace_dir,
                      solver |-> cmd.solver, max_iters |-> cmd.max_iters,
                      config |-> resolveConfig(cmd.loaded, cmd.workspace_dir,
                                               cmd.solver, cmd.max_iters) ])]
  /\ cmd' = Idle
  /\ UNCHANGED <<disk, toolClient, clock>>

SpecResolve == InitResolve /\ [][ResolveConfig]_vars

\* C30: config resolution applies defaults, then the config file, then the
\* CLI overrides: a value set by --solver, --max-iters or --workspace wins
\* over the file, a file value wins over the default, nested objects are
\* merged key by key, and an array in the file replaces the default array.
C30_ConfigPrecedence ==
  out["W1"] # Absent =>
    LET r == out["W1"][1]
        file == IF r.loaded = Absent THEN <<>> ELSE r.loaded[1]
        \* the file's value of a key of a nested object, or the default's
        fileOrDefault(object, key) ==
          IF object \in DOMAIN file /\ key \in DOMAIN file[object]
          THEN file[object][key] ELSE DEFAULT_CONFIG[object][key]
    IN  /\ DOMAIN r.config = DOMAIN DEFAULT_CONFIG
        /\ DOMAIN r.config.qlip = DOMAIN DEFAULT_CONFIG.qlip
        /\ DOMAIN r.config.policy = DOMAIN DEFAULT_CONFIG.policy
        /\ r.config.workspace_dir =
             IF r.workspace_dir # "" THEN r.workspace_dir
             ELSE IF "workspace_dir" \in DOMAIN file THEN file.workspace_dir
             ELSE DEFAULT_CONFIG.workspace_dir
        /\ r.config.qlip.solver =
             IF r.solver # "" THEN r.solver ELSE fileOrDefault("qlip", "solver")
        /\ r.config.policy.max_iters =
             IF r.max_iters # Absent THEN r.max_iters[1]
             ELSE fileOrDefault("policy", "max_iters")
        /\ \A key \in {"time_limit_s", "max_solutions", "max_atoms"} :
             r.config.qlip[key] = fileOrDefault("qlip", key)
        /\ \A key \in {"truth_accept_threshold", "relax_order", "tighten_order"} :
             r.config.policy[key] = fileOrDefault("policy", key)

\* C30 witness: the file sets solver, max_atoms and relax_order, the flags
\* set --solver and --workspace; the config has the flag's solver, the
\* file's max_atoms and relax_order and the default time limit and
\* tighten_order
C30_AllThreeSourcesUsed ==
  /\ out["W1"] # Absent
  /\ out["W1"][1].loaded =
       Some([ workspace_dir |-> "file_dir",
              qlip |-> [solver |-> "highs", max_atoms |-> 60],
              policy |-> [relax_order |-> <<"relax_symmetry">>] ])
  /\ out["W1"][1].solver = "cbc"
  /\ out["W1"][1].workspace_dir = "flag_dir"
  /\ out["W1"][1].max_iters = Absent
  /\ out["W1"][1].config.workspace_dir = "flag_dir"
  /\ out["W1"][1].config.qlip.solver = "cbc"
  /\ out["W1"][1].config.qlip.max_atoms = 60
  /\ out["W1"][1].config.qlip.time_limit_s = 3600
  /\ out["W1"][1].config.policy.relax_order = <<"relax_symmetry">>
  /\ out["W1"][1].config.policy.tighten_order = DEFAULT_CONFIG.policy.tighten_order
  /\ out["W1"][1].config.policy.max_iters = 5

(***************************************************************************)
(* The shared registries                                                   *)
(*                                                                         *)
(* A registry (a Map keyed by id) is the sequence of its items in          *)
(* insertion order; an item is [id, name], id being Some(string) or Absent *)
(* when the item has no string id.                                         *)
(***************************************************************************)
MaxRegistrations == 4

\* workflows CSP_WORKFLOWS
CSP_WORKFLOWS ==
  << [id |-> Some("csp_discovery"), name |-> "CSP Discovery"],
     [id |-> Some("csp_iterate"), name |-> "CSP Iterate"],
     [id |-> Some("csp_validate"), name |-> "CSP Validate"],
     [id |-> Some("csp_export"), name |-> "CSP Export"] >>

\* agents CSP_AGENTS
CSP_AGENTS ==
  << [id |-> Some("chemistry_scout"), name |-> "Chemistry Scout"],
     [id |-> Some("data_hydrator"), name |-> "Data Hydrator"],
     [id |-> Some("constraint_engineer"), name |-> "Constraint Engineer"],
     [id |-> Some("qlip_runner"), name |-> "QLIP Runner"],
     [id |-> Some("csp_verifier"), name |-> "CSP Verifier"],
     [id |-> Some("iteration_controller"), name |-> "Iteration Controller"] >>

\* verify CSP_VERIFY_PRESETS
CSP_VERIFY_PRESETS == << [id |-> Some("csp"), name |-> "CSP Verification"] >>

\* the body of registerAll's loop, replacing an entry registered under the id
RegisterItemReplacing(target, item) ==
  IF item.id = Absent THEN target
  ELSE IF \E i \in 1..Len(target) : target[i].id = item.id
  THEN [i \in 1..Len(target) |-> IF target[i].id = item.id THEN item ELSE target[i]]
  ELSE Append(target, item)

\* the body of registerAll's loop: items without a string id are skipped,
\* an id already in the Map is left alone
RegisterItem(target, item) ==
  IF item.id = Absent THEN target
  ELSE IF \E i \in 1..Len(target) : target[i].id = item.id THEN target
  ELSE Append(target, item)

RECURSIVE registerAll(_, _)
registerAll(target, items) ==
  IF items = <<>> THEN target
  ELSE registerAll(RegisterItem(target, Head(items)), Tail(items))

\* items registered by the rest of the program: one under an id of the CSP
\* bundle, one under another id, one without an id
OtherItems ==
  [ workflows |-> { [id |-> Some("csp_discovery"), name |-> "Other Discovery"],
                    [id |-> Some("sparc"), name |-> "SPARC"],
                    [id |-> Absent, name |-> "No Id"] },
    agents |-> { [id |-> Some("qlip_runner"), name |-> "Other Runner"],
                 [id |-> Some("coder"), name |-> "Coder"],
                 [id |-> Absent, name |-> "No Id"] },
    verify |-> { [id |-> Some("csp"), name |-> "Other Preset"],
                 [id |-> Some("strict"), name |-> "Strict"],
                 [id |-> Absent, name |-> "No Id"] } ]

\* the three Maps of csp-registries.ts are empty when the module is loaded
InitRegistries ==
  /\ clock = 0
  /\ disk = [w \in {"W1"} |-> [r \in RunIds |-> NoRun]]
  /\ cmd = [ pc |-> "registries", workflows |-> <<>>, agents |-> <<>>,
             verify |-> <<>>, cspCalls |-> 0, calls |-> 0 ]
  /\ toolClient = NewClient("real", 1, 8000)
  /\ out = [w \in {"W1"} |-> Absent]

\* cli registerCspBundles
registerCspBundles ==
  /\ cmd.pc = "registries"
  /\ cmd.calls < MaxRegistrations
  /\ cmd' = [cmd EXCEPT !.workflows = registerAll(@, CSP_WORKFLOWS),
                        !.agents = registerAll(@, CSP_AGENTS),
                        !.verify = registerAll(@, CSP_VERIFY_PRESETS),
                        !.cspCalls = @ + 1, !.calls = @ + 1]
  /\ UNCHANGED <<disk, toolClient, out, clock>>

\* registerWorkflows, registerAgents or registerVerifyPresets called with
\* one item by the rest of the program
RegisterOther ==
  /\ cmd.pc = "registries"
  /\ cmd.calls < MaxRegistrations
  /\ \E registry \in {"workflows", "agents", "verify"} :
     \E item \in OtherItems[registry] :
       cmd' = [cmd EXCEPT ![registry] = registerAll(@, <<item>>), !.calls = @ + 1]
  /\ UNCHANGED <<disk, toolClient, out, clock>>

NextRegistries == registerCspBundles \/ RegisterOther

SpecRegistries == InitRegistries /\ [][NextRegistries]_vars

\* the ids a registry lists
ListedIds(registry) == {registry[i].id : i \in 1..Len(registry)}

\* C31: registering the CSP bundles is additive: once registerCspBundles
\* has been called (any number of times) the registries list csp_discovery
\* and csp_iterate, the CSP agents and the csp verify preset; and no
\* registration replaces or removes an entry already registered: the
\* entries a registry held before a step are unchanged after it.
C31_RegistrationAdditive ==
  [][ /\ \A registry \in {"workflows", "agents", "verify"} :
           IsPrefix(cmd[registry], cmd'[registry])
      /\ cmd'.cspCalls >= 1 =>
           /\ {Some("csp_discovery"), Some("csp_iterate")} \subseteq ListedIds(cmd'.workflows)
           /\ { Some("chemistry_scout"), Some("data_hydrator"),
                Some("constraint_engineer"), Some("qlip_runner"),
                Some("csp_verifier"), Some("iteration_controller") }
                \subseteq ListedIds(cmd'.agents)
           /\ Some("csp") \in ListedIds(cmd'.verify) ]_vars

\* C31 witness: csp_discovery was registered by someone else first, the CSP
\* bundles were registered twice after it; the first entry is still the
\* other one and csp_iterate is listed once
C31_BundlesRegisteredOverOther ==
  /\ cmd.pc = "registries"
  /\ cmd.cspCalls = 2
  /\ Len(cmd.workflows) = 4
  /\ cmd.workflows[1] = [id |-> Some("csp_discovery"), name |-> "Other Discovery"]
  /\ cmd.workflows[2] = [id |-> Some("csp_iterate"), name |-> "CSP Iterate"]
  /\ Len(cmd.agents) = 6
  /\ Len(cmd.verify) = 1

(***************************************************************************)
(* selectChemistry against SeededRng.fork                                  *)
(***************************************************************************)
MaxSuggestions == 5
MaxSeedMagnitude == 20

\* 0x3f1c2b, the salt of selectChemistry
ChemistrySalt == <<63, 7211>>

\* SeededRng.fork(salt) for a numeric salt: the state of the forked rng
RngFork(state, salt) == normalizeSeed(Xor32(state, normalizeSeed(salt)))

\* the index selectChemistry draws for a list of len suggestions
SelectChemistryIndex(len, seed) ==
  RngNextInt(normalizeSeed(Xor32(SeedWord(seed), ChemistrySalt)), len).value

\* the seeds tried: around 0 on both sides, the salt itself and its negative
ChemistrySeeds == (0 - MaxSeedMagnitude .. MaxSeedMagnitude) \cup {4136235, -4136235}

InitChemistry ==
  /\ clock = 0
  /\ disk = [w \in {"W1"} |-> [r \in RunIds |-> NoRun]]
  /\ \E seed \in ChemistrySeeds, len \in 1..MaxSuggestions :
       cmd = [pc |-> "select_chemistry", seed |-> seed, len |-> len]
  /\ toolClient = NewClient("real", 1, 8000)
  /\ out = [w \in {"W1"} |-> Absent]

\* selectChemistry's draw, and the draw of SeededRng(seed).fork(0x3f1c2b)
SelectChemistryDraw ==
  /\ cmd.pc = "select_chemistry"
  /\ out' = [out EXCEPT !["W1"] =
               Some([ seed |-> cmd.seed, len |-> cmd.len,
                      index |-> SelectChemistryIndex(cmd.len, cmd.seed),
                      forked |-> RngNextInt(RngFork(SeededRng(cmd.seed), ChemistrySalt),
                                            cmd.len).value ])]
  /\ cmd' = Idle
  /\ UNCHANGED <<disk, toolClient, clock>>

SpecChemistry == InitChemistry /\ [][SelectChemistryDraw]_vars

\* C32 (as stated): the chemistry index chosen by discover equals
\* SeededRng(seed).fork(0x3f1c2b).nextInt(0, len - 1) for every integer
\* seed, 0 and negative seeds included, and is a valid index of the list.
C32_IndexIsForkDraw ==
  out["W1"] # Absent =>
    /\ out["W1"][1].index = out["W1"][1].forked
    /\ out["W1"][1].index \in 0..(out["W1"][1].len - 1)

(***************************************************************************)
(* applyIterationDecision on its own                                       *)
(***************************************************************************)
MaxAdjustments == 3

\* the actions of the default relax_order and tighten_order
RelaxActions == { "widen_lattice", "relax_symmetry", "expand_oxidation_states",
                  "increase_max_atoms", "expand_prototypes" }
TightenActions == { "increase_min_distance_scale", "narrow_density",
                    "restrict_oxidation_states", "restrict_prototypes" }

\* the density ranges tried, all with 0 < lo <= hi: [2.8, 4.2] of the stub,
\* [0.05, 0.05] and [0.01, 0.1]
AdjustDensityRanges ==
  { [lo |-> 28, hi |-> 42, den |-> 10], [lo |-> 5, hi |-> 5, den |-> 100],
    [lo |-> 1, hi |-> 10, den |-> 100] }

\* the constraints applyIterationDecision is first given: those
\* build_constraints returns, without adjustments
AdjustConstraints ==
  { [ chem_system |-> "Na-Cl",
      priors |-> [ lattice_prior |-> [symmetry |-> "any"],
                   density_range |-> range,
                   oxidation_state_constraints |-> "Na:1,Cl:-1",
                   prototypes |-> prototypes ],
      overrides |-> [ solver |-> "gurobi", max_atoms |-> maxAtoms,
                      min_distance_scale |-> Absent ],
      adjustments |-> Absent ] :
      range \in AdjustDensityRanges,
      prototypes \in {<<"rocksalt">>, <<"olivine", "spinel", "perovskite">>},
      maxAtoms \in {Absent, Some(120)} }

InitAdjust ==
  /\ clock = 0
  /\ disk = [w \in {"W1"} |-> [r \in RunIds |-> NoRun]]
  /\ \E constraints \in AdjustConstraints :
       cmd = [pc |-> "adjust", constraints |-> constraints, iteration |-> 1]
  /\ toolClient = NewClient("stub", 1, 8000)
  /\ out = [w \in {"W1"} |-> Absent]

\* one call of applyIterationDecision on the constraints of the last call;
\* its arguments and result are kept
ApplyDecision ==
  /\ cmd.pc = "adjust"
  /\ cmd.iteration <= MaxAdjustments
  /\ \E action \in RelaxActions \cup TightenActions :
     \E decision \in {[ mode |-> IF action \in RelaxActions THEN "relax" ELSE "tighten",
                        action |-> action ]} :
     \E result \in {applyIterationDecision(cmd.constraints, decision, cmd.iteration)} :
       /\ out' = [out EXCEPT !["W1"] =
                    Some([ constraints |-> cmd.constraints, decision |-> decision,
                           iteration |-> cmd.iteration, result |-> result ])]
       /\ cmd' = [cmd EXCEPT !.constraints = result, !.iteration = @ + 1]
  /\ UNCHANGED <<disk, toolClient, clock>>

SpecAdjust == InitAdjust /\ [][ApplyDecision]_vars

\* C33 (as stated): starting from priors with 0 < lo <= hi, after any
\* sequence of policy actions the density_range still has 0 < lo <= hi.
C33_DensityRangeOrdered ==
  cmd.pc = "adjust" =>
    /\ 0 < cmd.constraints.priors.density_range.lo
    /\ cmd.constraints.priors.density_range.lo <= cmd.constraints.priors.density_range.hi

\* C34: restrict_prototypes applied to n >= 2 prototypes yields the first
\* n - 1 of them, applied to one prototype it leaves the list unchanged;
\* after any sequence of actions from a non-empty list the list has at
\* least one prototype.
C34_RestrictKeepsOne ==
  /\ cmd.pc = "adjust" => Len(cmd.constraints.priors.prototypes) >= 1
  /\ (out["W1"] # Absent /\ out["W1"][1].decision.action = "restrict_prototypes") =>
       LET before == out["W1"][1].constraints.priors.prototypes
           after == out["W1"][1].result.priors.prototypes
       IN  IF Len(before) >= 2
           THEN /\ Len(after) = Len(before) - 1
                /\ \A i \in 1..Len(after) : after[i] = before[i]
           ELSE after = before

\* C34 witness: restrict_prototypes applied three times to three
\* prototypes; the last call was given one prototype and returned it
C34_RestrictedDownToOne ==
  /\ out["W1"] # Absent
  /\ out["W1"][1].decision.action = "restrict_prototypes"
  /\ out["W1"][1].iteration = 3
  /\ out["W1"][1].constraints.priors.prototypes = <<"olivine">>
  /\ out["W1"][1].result.priors.prototypes = <<"olivine">>
  /\ Len(out["W1"][1].result.adjustments[1]) = 3

\* C35: for an action other than widen_lattice, narrow_density,
\* increase_max_atoms, increase_min_distance_scale, expand_prototypes and
\* restrict_prototypes, applyIterationDecision changes nothing but
\* adjustments: chem_system, priors and overrides are those of the input,
\* and the adjustments are the input's followed by the new entry.
C35_OtherActionsOnlyAppend ==
  ( /\ out["W1"] # Absent
    /\ out["W1"][1].decision.action \notin
         { "widen_lattice", "narrow_density", "increase_max_atoms",
           "increase_min_distance_scale", "expand_prototypes", "restrict_prototypes" } ) =>
    LET given == out["W1"][1].constraints
        result == out["W1"][1].result
        earlier == IF given.adjustments = Absent THEN <<>> ELSE given.adjustments[1]
    IN  /\ result.chem_system = given.chem_system
        /\ result.priors = given.priors
        /\ result.overrides = given.overrides
        /\ DOMAIN result = DOMAIN given
        /\ result.adjustments =
             Some(Append(earlier, [ iteration |-> out["W1"][1].iteration,
                                    mode |-> out["W1"][1].decision.mode,
                                    action |-> out["W1"][1].decision.action ]))

\* C35 witness: relax_symmetry applied after two actions that changed the
\* priors and the overrides
C35_RelaxSymmetryAfterChanges ==
  /\ out["W1"] # Absent
  /\ out["W1"][1].decision.action = "relax_symmetry"
  /\ out["W1"][1].iteration = 3
  /\ out["W1"][1].constraints.overrides.min_distance_scale = Some(105)
  /\ Len(out["W1"][1].constraints.priors.prototypes) = 4
  /\ out["W1"][1].result.priors = out["W1"][1].constraints.priors
  /\ Len(out["W1"][1].result.adjustments[1]) = 3

(***************************************************************************)
(* applyIterationDecision on JavaScript objects                            *)
(*                                                                         *)
(* The heap is the sequence of the objects and arrays allocated so far, an *)
(* address being a position in it.  A constraints object holds the         *)
(* addresses of its priors, overrides and adjustments (Absent when it has  *)
(* none); a priors object holds the addresses of its density_range and     *)
(* prototypes arrays.                                                      *)
(***************************************************************************)
\* a new object or array: the heap with it and its address
HeapAlloc(heap, object) == [heap |-> Append(heap, object), ref |-> Len(heap) + 1]

\* the constraints value at an address
Deref(heap, ref) ==
  [ chem_system |-> heap[ref].chem_system,
    priors |-> [heap[heap[ref].priors] EXCEPT
                  !.density_range = heap[@], !.prototypes = heap[@]],
    overrides |-> heap[heap[ref].overrides],
    adjustments |-> IF heap[ref].adjustments = Absent THEN Absent
                    ELSE Some(heap[heap[ref].adjustments[1]]) ]

\* the objects of a constraints value without adjustments; the constraints
\* object is the last
HeapOf(constraints) ==
  << constraints.priors.density_range,
     constraints.priors.prototypes,
     [constraints.priors EXCEPT !.density_range = 1, !.prototypes = 2],
     constraints.overrides,
     [ chem_system |-> constraints.chem_system, priors |-> 3, overrides |-> 4,
       adjustments |-> Absent ] >>

\* constraints.adjustments || []: the array of the constraints itself
ShareAdjustments(heap, constraints) ==
  IF heap[constraints].adjustments = Absent THEN HeapAlloc(heap, <<>>)
  ELSE [heap |-> heap, ref |-> heap[constraints].adjustments[1]]

\* constraints.adjustments ? [...constraints.adjustments] : []
CopyAdjustments(heap, constraints) ==
  IF heap[constraints].adjustments = Absent THEN HeapAlloc(heap, <<>>)
  ELSE HeapAlloc(heap, heap[heap[constraints].adjustments[1]])

\* next.priors = {...next.priors, [field]: array}
AssignPriors(heap, next, field, array) ==
  Then(HeapAlloc(heap, array), LAMBDA a :
  Then(HeapAlloc(a.heap, [a.heap[a.heap[next].priors] EXCEPT ![field] = a.ref]), LAMBDA p :
    [heap |-> [p.heap EXCEPT ![next].priors = p.ref], ref |-> next]))

\* next.overrides = {...next.overrides, [field]: value}
AssignOverrides(heap, next, field, value) ==
  Then(HeapAlloc(heap, [heap[heap[next].overrides] EXCEPT ![field] = value]), LAMBDA o :
    [heap |-> [o.heap EXCEPT ![next].overrides = o.ref], ref |-> next])

\* the switch of applyIterationDecision on the object next
HeapSwitch(heap, next, action) ==
  LET priors == heap[heap[next].priors]
      dr == heap[priors.density_range]
      protos == heap[priors.prototypes]
      overrides == heap[heap[next].overrides]
  IN  CASE action = "widen_lattice" ->
             AssignPriors(heap, next, "density_range",
               [lo |-> Max(dr.den, dr.lo * 9), hi |-> dr.hi * 11, den |-> dr.den * 10])
        [] action = "narrow_density" ->
             AssignPriors(heap, next, "density_range",
               [lo |-> dr.lo * 21, hi |-> Max(dr.lo * 22, dr.hi * 19), den |-> dr.den * 20])
        [] action = "increase_max_atoms" ->
             AssignOverrides(heap, next, "max_atoms",
               IF overrides.max_atoms # Absent THEN Some(overrides.max_atoms[1] + 5)
               ELSE Some(150))
        [] action = "increase_min_distance_scale" ->
             AssignOverrides(heap, next, "min_distance_scale",
               IF overrides.min_distance_scale # Absent
               THEN Some(overrides.min_distance_scale[1] + 5) ELSE Some(105))
        [] action = "expand_prototypes" ->
             AssignPriors(heap, next, "prototypes", Append(protos, "proto_extra"))
        [] action = "restrict_prototypes" ->
             AssignPriors(heap, next, "prototypes",
                          SubSeq(protos, 1, Max(1, Len(protos) - 1)))
        [] OTHER -> [heap |-> heap, ref |-> next]

\* applyIterationDecision statement by statement: the copy of adjustments,
\* the push, the object next, the switch; the heap after the call and the
\* address returned
ApplyOnHeap(heap, constraints, decision, iteration) ==
  Then(CopyAdjustments(heap, constraints), LAMBDA adjustments :
  Then([adjustments.heap EXCEPT ![adjustments.ref] =
          Append(@, [iteration |-> iteration, mode |-> decision.mode,
                     action |-> decision.action])], LAMBDA pushed :
  Then(HeapAlloc(pushed, [pushed[constraints] EXCEPT
                            !.adjustments = Some(adjustments.ref)]), LAMBDA next :
    HeapSwitch(next.heap, next.ref, decision.action))))

InitHeap ==
  /\ clock = 0
  /\ disk = [w \in {"W1"} |-> [r \in RunIds |-> NoRun]]
  /\ \E constraints \in AdjustConstraints :
       cmd = [ pc |-> "heap", heap |-> HeapOf(constraints),
               constraints |-> Len(HeapOf(constraints)), iteration |-> 1 ]
  /\ toolClient = NewClient("stub", 1, 8000)
  /\ out = [w \in {"W1"} |-> Absent]

\* one call of applyIterationDecision on the object the last call returned;
\* the heap before and after the call is kept
ApplyDecisionOnHeap ==
  /\ cmd.pc = "heap"
  /\ cmd.iteration <= MaxAdjustments
  /\ \E action \in RelaxActions \cup TightenActions :
     \E decision \in {[ mode |-> IF action \in RelaxActions THEN "relax" ELSE "tighten",
                        action |-> action ]} :
     \E after \in {ApplyOnHeap(cmd.heap, cmd.constraints, decision, cmd.iteration)} :
       /\ out' = [out EXCEPT !["W1"] =
                    Some([ heap |-> cmd.heap, constraints |-> cmd.constraints,
                           decision |-> decision, iteration |-> cmd.iteration,
                           after |-> after.heap, result |-> after.ref ])]
       /\ cmd' = [cmd EXCEPT !.heap = after.heap, !.constraints = after.ref,
                             !.iteration = @ + 1]
  /\ UNCHANGED <<disk, toolClient, clock>>

SpecHeap == InitHeap /\ [][ApplyDecisionOnHeap]_vars

\* C36: applyIterationDecision is pure: the value it returns is determined
\* by the value of (constraints, decision, iteration) alone, whatever
\* objects the constraints share with earlier results; it modifies no
\* object or array that existed before the call, so the constraints it is
\* given (adjustments, priors, overrides) are unchanged after it; and it
\* leaves the PRNG state alone.
C36_PolicyPure ==
  out["W1"] # Absent =>
    LET call == out["W1"][1]
    IN  /\ \A address \in 1..Len(call.heap) : call.after[address] = call.heap[address]
        /\ Deref(call.after, call.constraints) = Deref(call.heap, call.constraints)
        /\ Deref(call.after, call.result) =
             applyIterationDecision(Deref(call.heap, call.constraints),
                                    call.decision, call.iteration)
        /\ toolClient.state = SeededRng(1)

\* C36 witness: a third call, given constraints that already carry two
\* adjustments and share their priors with an earlier result, has returned
\* a new object with three adjustments
C36_ThirdCallOnSharedObjects ==
  /\ out["W1"] # Absent
  /\ out["W1"][1].iteration = 3
  /\ out["W1"][1].decision.action = "restrict_oxidation_states"
  /\ out["W1"][1].result # out["W1"][1].constraints
  /\ out["W1"][1].after[out["W1"][1].result].priors =
       out["W1"][1].heap[out["W1"][1].constraints].priors
  /\ Len(Deref(out["W1"][1].heap, out["W1"][1].constraints).adjustments[1]) = 2
  /\ Len(Deref(out["W1"][1].after, out["W1"][1].result).adjustments[1]) = 3

\* C37: in dry-run a candidate file is immutable once written: whatever
\* command takes a step, every file candidates/cand_NNNN.cif that existed
\* before the step exists after it with the same content.
C37_CandidatesImmutable ==
  [][ \A w \in DOMAIN disk : \A r \in DOMAIN disk[w] :
        \A f \in disk[w][r].candidates :
          \E g \in disk'[w][r].candidates :
            g.candidate_id = f.candidate_id /\ g.content = f.content ]_vars

\* C37 witness: a dry-run iterate with another seed than the discover that
\* created the run has written the candidates again; cand_0003.cif holds
\* the text first written
C37_RewrittenWithSameContent ==
  \E w \in DOMAIN out :
    /\ cmd.pc = "idle" /\ out[w] # Absent
    /\ Printed(w).inv.command = "csp:iterate"
    /\ Printed(w).inv.kind = "stub"
    /\ Printed(w).exitCode = 0
    /\ Printed(w).inv.seed # Printed(w).inv.run_id.seed
    /\ \E f \in disk[w][Printed(w).inv.run_id].candidates :
         f.candidate_id = 3 /\ f.content = StubCif(3)
    /\ Len(disk[w][Printed(w).inv.run_id].events) > 6

(***************************************************************************)
(* SeededRng.nextInt in double precision                                   *)
(*                                                                         *)
(* nextFloat(lower, upper + 1) is lower + span * r, r = draw / 2^32 the    *)
(* value of next(), span = upper + 1 - lower.  For span < 2^15 the product *)
(* is exact in a double; the sum is rounded to 53 significant bits (to     *)
(* nearest, ties to even) before Math.floor is applied.                    *)
(***************************************************************************)
MaxDraws == 2

\* span * draw / 2^32 for 0 <= span < 2^15: the integer part and the
\* numerator of the fraction over 2^32, a 32-bit word
ScaleExact(draw, span) ==
  LET low == span * draw[2]
      mid == span * draw[1] + (low \div H16)
  IN  [int |-> mid \div H16, frac |-> <<mid % H16, low % H16>>]

\* floor(log2(n)) for n >= 1
RECURSIVE Log2Floor(_)
Log2Floor(n) == IF n < 2 THEN 0 ELSE 1 + Log2Floor(n \div 2)

\* Math.floor of the double nearest to i + frac / 2^32, for |i| < 2^30.
\* The double keeps q = 52 - k bits after the binary point, k the exponent
\* of the magnitude; with q >= 32 the sum is exact, otherwise the fraction
\* is rounded to a multiple of 2^-q and the floor is i + 1 when it rounds
\* up to 1
FloorOfDoubleSum(i, frac) ==
  LET magnitude == IF i >= 0 THEN i ELSE IF frac = <<0, 0>> THEN 0 - i ELSE 0 - i - 1
      q == 52 - Log2Floor(magnitude)
      unit == 2 ^ (32 - q)
      rest == frac[2] % unit
      kept == frac[2] \div unit
      roundsUp == 2 * rest > unit \/ (2 * rest = unit /\ kept % 2 = 1)
      allOnes == frac[1] = H16 - 1 /\ kept = (H16 \div unit) - 1
  IN  IF magnitude < 1 \/ q >= 32 THEN i
      ELSE IF roundsUp /\ allOnes THEN i + 1 ELSE i

\* SeededRng.nextInt(min, max) on the draw of next()
NextIntOf(draw, min, max) ==
  LET lower == IF min <= max THEN min ELSE max
      upper == IF min <= max THEN max ELSE min
      product == ScaleExact(draw, upper + 1 - lower)
  IN  FloorOfDoubleSum(lower + product.int, product.frac)

\* the seeds a SeededRng is built from: a finite number, or NaN / Infinity
RngSeeds ==
  { [finite |-> TRUE, value |-> n] : n \in {0, 1, 2, -1, 394144346} }
    \cup { [finite |-> FALSE, value |-> 0] }

\* new SeededRng(seed).state: normalizeSeed with its isFinite test
SeedState(seed) == IF ~seed.finite THEN <<0, 1>> ELSE SeededRng(seed.value)

\* the bounds nextInt is called with: around 0, and 2^21 and its neighbours
RngBounds == {-2, 0, 1, 3, 15, 2097151, 2097152, 2097153}

InitRng ==
  /\ clock = 0
  /\ disk = [w \in {"W1"} |-> [r \in RunIds |-> NoRun]]
  /\ \E seed \in RngSeeds :
       cmd = [pc |-> "rng", seed |-> seed, state |-> SeedState(seed), draws |-> 0]
  /\ toolClient = NewClient("real", 1, 8000)
  /\ out = [w \in {"W1"} |-> Absent]

\* rng.nextInt(min, max), for bounds less than 2^15 apart: the draw of
\* next() and the integer returned
NextIntCall ==
  /\ cmd.pc = "rng"
  /\ cmd.draws < MaxDraws
  /\ \E min \in RngBounds, max \in RngBounds :
     \E d \in {RngNext(cmd.state)} :
       /\ max - min < 2 ^ 15 /\ min - max < 2 ^ 15
       /\ out' = [out EXCEPT !["W1"] =
                    Some([ seed |-> cmd.seed, draws |-> cmd.draws, state |-> cmd.state,
                           min |-> min, max |-> max, draw |-> d.out,
                           value |-> NextIntOf(d.out, min, max) ])]
       /\ cmd' = [cmd EXCEPT !.state = d.state, !.draws = @ + 1]
  /\ UNCHANGED <<disk, toolClient, clock>>

SpecRng == InitRng /\ [][NextIntCall]_vars

\* C38 (as stated): for all integers lo, hi and every PRNG state,
\* nextInt(lo, hi) is an integer in [min(lo, hi), max(lo, hi)] and next()
\* is in [0, 1); a PRNG built from seed 0 or a non-finite seed behaves as
\* one built from seed 1.
C38_NextIntInRange ==
  out["W1"] # Absent =>
    LET call == out["W1"][1]
        lower == IF call.min <= call.max THEN call.min ELSE call.max
        upper == IF call.min <= call.max THEN call.max ELSE call.min
    IN  /\ lower <= call.value /\ call.value <= upper
        /\ call.draw[1] \in 0..(H16 - 1) /\ call.draw[2] \in 0..(H16 - 1)
        /\ (call.draws = 0 /\ (~call.seed.finite \/ call.seed.value = 0)) =>
             call.state = SeededRng(1)


\* the manifest fields an iterate leaves as they were
ManifestFrameFields ==
  {"run_id", "objective", "chem_system", "seed", "created_at", "max_iters",
   "config_snapshot"}

\* C39: a successful iterate changes only iteration, updated_at,
\* selected_candidate_id, truth_score and status of the manifest: run_id,
\* objective, chem_system, seed, created_at, max_iters and config_snapshot
\* keep the values the manifest held before the iterate (those discover
\* wrote), whatever seed and config the iterate is invoked with, and no
\* earlier step of the iterate touches the manifest.
C39_IterateKeepsManifestFrame ==
  [][ \A w \in DOMAIN disk :
        /\ IterateSucceeds(w) =>
             LET r == cmd.inv.run_id
                 before == disk[w][r].manifest[1]
                 after == disk'[w][r].manifest[1]
             IN  /\ DOMAIN after = DOMAIN before
                 /\ \A f \in ManifestFrameFields : after[f] = before[f]
                 /\ after.run_id = r
                 /\ \A other \in DOMAIN disk[w] \ {r} :
                      disk'[w][other].manifest = disk[w][other].manifest
        /\ (CommandOfStep(w) = "csp:iterate" /\ cmd'.pc # "idle") =>
             \A r \in DOMAIN disk[w] : disk'[w][r].manifest = disk[w][r].manifest
    ]_vars

\* C39 witness: an iterate invoked with another seed and another max_iters
\* than the discover of the run has succeeded, and the manifest still holds
\* the discover's seed, max_iters and config
C39_IteratedWithOtherSeedAndConfig ==
  \E w \in DOMAIN disk :
    /\ SucceededAs(w, "csp:iterate")
    /\ LET manifest == disk[w][Printed(w).inv.run_id].manifest[1]
       IN  /\ manifest.iteration = 1
           /\ manifest.seed # Printed(w).inv.seed
           /\ manifest.config_snapshot # Printed(w).inv.config
           /\ manifest.max_iters # Printed(w).inv.config.policy.max_iters


\* a command of workspace w ends with exit code 0 in this step; its
\* invocation is then out'[w][1].inv
CommandSucceeds(w) ==
  /\ cmd'.pc = "idle"
  /\ cmd.pc # "idle" \/ clock' = clock + 1
  /\ out'[w] # Absent
  /\ out'[w][1].exitCode = 0
  /\ out'[w][1].inv.workspace = w

\* run_manifest.json names the best candidate of validation/summary.json
\* and carries that candidate's entry of truth_scores
ManifestAgrees(d) ==
  /\ d.manifest # Absent
  /\ d.summary # Absent
  /\ d.manifest[1].selected_candidate_id = Some(d.summary[1].best_candidate_id)
  /\ d.manifest[1].truth_score =
       Some(ObjGet(d.summary[1].truth_scores, d.summary[1].best_candidate_id))

\* C40 (as stated): after any sequence of successfully completed commands
\* on a run (discover, iterate, validate, export, with any seeds) the
\* manifest's selected_candidate_id is the best_candidate_id of
\* validation/summary.json and its truth_score is that candidate's entry of
\* truth_scores: a successful discover establishes the agreement and every
\* successful command on a run that has it keeps it.
C40_ManifestMatchesSummary ==
  [][ \A w \in DOMAIN disk :
        CommandSucceeds(w) =>
          LET inv == out'[w][1].inv
          IN  (inv.command = "csp:discover" \/ ManifestAgrees(disk[w][inv.run_id])) =>
                ManifestAgrees(disk'[w][inv.run_id]) ]_vars

\* C40 (amended): a successful discover or iterate leaves the manifest's
\* selected_candidate_id and truth_score equal to the best candidate of the
\* summary.json it wrote and that candidate's score, and an export keeps
\* the agreement; a validate writes the summary it prints and leaves the
\* manifest with the values of the last discover or iterate.
C40_ManifestMatchesSummaryUntilValidate ==
  [][ \A w \in DOMAIN disk :
        CommandSucceeds(w) =>
          LET inv == out'[w][1].inv
              before == disk[w][inv.run_id]
              after == disk'[w][inv.run_id]
          IN  /\ inv.command \in {"csp:discover", "csp:iterate"} => ManifestAgrees(after)
              /\ (inv.command = "csp:export" /\ ManifestAgrees(before)) =>
                   ManifestAgrees(after)
              /\ inv.command = "csp:validate" =>
                   /\ after.manifest = before.manifest
                   /\ after.summary # Absent
                   /\ after.summary[1].best_candidate_id =
                        out'[w][1].json.best_candidate_id ]_vars

\* C40 witness: an export has succeeded on a run that a discover and an
\* iterate have written, manifest and summary.json in agreement
C40_ExportedInAgreement ==
  \E w \in DOMAIN disk :
    /\ SucceededAs(w, "csp:export")
    /\ Printed(w).json.exports # <<>>
    /\ LET d == disk[w][Printed(w).inv.run_id]
       IN  /\ ManifestAgrees(d)
           /\ d.manifest[1].iteration = 1
           /\ d.manifest[1].truth_score # Absent

=============================================================================
